---- MODULE Spec2Model ----
(***************************************************************************)
(* Per-frame biomechanics state machines of the exercise coach:            *)
(*   - ExerciseAnalyzer (src/api_server.py): fixed-exercise analyzer with  *)
(*     a 7-sample moving average, simple hysteresis and quality scoring;   *)
(*   - BiomechanicsCoach (src/main.py, src/biomechanics.py): template-     *)
(*     driven coach with target-tolerance hysteresis and a stability       *)
(*     debounce window.                                                    *)
(*                                                                         *)
(* Angles are exact rationals: an angle of d degrees is the integer        *)
(* d * Scale, where Scale is a multiple of every window length 1..7 and of *)
(* 2, so that every moving average and the midpoint of the excellent band  *)
(* are integers.  Landmarks lie on the unit circle and are given by their  *)
(* heading in degrees, so the angle at a vertex is the inscribed angle.    *)
(***************************************************************************)
EXTENDS Integers, Sequences, FiniteSets, TLC

VARIABLES
  server,           \* which program runs: "api_server" or "main"
  analyzer,         \* api_server.py: the ExerciseAnalyzer of the exercise in use
  analyze_result,   \* api_server.py: the record the last analyze call returned
  coach,            \* main.py: the global BiomechanicsCoach
  analysis_active,  \* main.py: the global flag
  now,              \* main.py: current_time of the last frame of generate_frames
  frame_count,      \* main.py: frames handled by generate_frames
  op,               \* the operation that ran last
  scnA,             \* smoothed samples of scenario A matched so far, or ScnOff
  scnC,             \* primary angles of scenario C matched so far, or ScnOff
  response,         \* the HTTP response of the last request
  catalog,          \* a catalog template put before the validators and the constructor
  api_globals,      \* api_server.py: the analyzers dict and the thresholds of EXERCISE_CONFIGS
  conc              \* threads: the lock, each thread's position and locals

vars == <<server, analyzer, analyze_result, coach, analysis_active, now,
          frame_count, op, scnA, scnC, response, catalog, api_globals, conc>>

----------------------------------------------------------------------------
(* Units and bounds *)

Scale == 2 * 2 * 2 * 3 * 5 * 7

Deg(d) == d * Scale

MaxReps == 1

MaxFrames == 8

MaxTime == 3

MaxRequests == 5

MaxSwitches == 2

MaxLockFrames == 4

MaxRaceRequests == 9

MaxHoldReps == 2

MaxJointFrames == 3

MaxLead == 1

MaxBurst == 8

MaxDebounceTime == 5

MaxDebounceReps == 1

MaxResets == 1

Abs(x) == IF x < 0 THEN -x ELSE x

Min(a, b) == IF a <= b THEN a ELSE b

Max(a, b) == IF a >= b THEN a ELSE b

RECURSIVE SeqSum(_)
SeqSum(s) == IF s = <<>> THEN 0 ELSE Head(s) + SeqSum(Tail(s))

----------------------------------------------------------------------------
(* src/api_server.py: configuration *)

SMOOTHING_WINDOW == 7

HYSTERESIS_BUFFER == 5

EXERCISE_CONFIGS ==
  [squat |->
     [joint_chain |-> <<"Hip", "Knee", "Ankle">>,
      thresholds |-> [down |-> Deg(110), up |-> Deg(160), excellent_min |-> Deg(90),
                      excellent_max |-> Deg(105), too_deep |-> Deg(80)],
      feedback_messages |-> [excellent |-> "PERFECT DEPTH!", good |-> "GOOD FORM",
                             deeper |-> "GO DEEPER", too_deep |-> "TOO LOW!"]],
   bicep_curl |->
     [joint_chain |-> <<"Shoulder", "Elbow", "Wrist">>,
      thresholds |-> [down |-> Deg(60), up |-> Deg(150), excellent_min |-> Deg(40),
                      excellent_max |-> Deg(55), too_deep |-> Deg(30)],
      feedback_messages |-> [excellent |-> "FULL CONTRACTION!", good |-> "GOOD CURL",
                             deeper |-> "CURL HIGHER", too_deep |-> "CONTROLLED!"]],
   push_up |->
     [joint_chain |-> <<"Shoulder", "Elbow", "Wrist">>,
      thresholds |-> [down |-> Deg(90), up |-> Deg(160), excellent_min |-> Deg(70),
                      excellent_max |-> Deg(85), too_deep |-> Deg(60)],
      feedback_messages |-> [excellent |-> "PERFECT DEPTH!", good |-> "GOOD PUSH-UP",
                             deeper |-> "GO LOWER", too_deep |-> "TOO LOW!"]]]

ExerciseNames == DOMAIN EXERCISE_CONFIGS

----------------------------------------------------------------------------
(* Landmarks.  A landmark map is a function from the keys that are present *)
(* to records [h, vis]: h is the heading (degrees, 0..359) of the point on *)
(* the unit circle, vis the visibility in tenths (0..10).                  *)

\* The key f"{side}{joint}" of a landmark.
Key(side, joint) == <<side, joint>>

Vis(lm, k) == IF k \in DOMAIN lm THEN lm[k].vis ELSE 0

\* Counter-clockwise arc, in degrees, from heading p to heading q.
Arc(p, q) == (q - p) % 360

\* a or c coincides with b: the vector ba or bc has zero length.
Degenerate(a, b, c) == a.h = b.h \/ c.h = b.h

\* Angle at b between a and c for three distinct-from-b points on the unit
\* circle: half the arc from a to c that does not contain b.
InscribedAngle(a, b, c) ==
  LET ac == Arc(a.h, c.h)
      arc == IF Arc(a.h, b.h) < ac THEN 360 - ac ELSE ac
  IN  (arc * Scale) \div 2

\* get_angle: the division by mag_a * mag_c = 0 raises, and the bare except
\* returns 180.0.
get_angle(a, b, c) ==
  IF Degenerate(a, b, c) THEN Deg(180) ELSE InscribedAngle(a, b, c)

\* round(num / den, 1-decimal grid already applied by the caller): nearest
\* integer to num / den, ties to even (Python's round).
RoundDiv(num, den) ==
  LET q == num \div den
      r == num % den
  IN  IF 2 * r < den THEN q
      ELSE IF 2 * r > den THEN q + 1
      ELSE IF q % 2 = 0 THEN q ELSE q + 1

\* round(angle, 1), in tenths of a degree.
Round1(angle) == RoundDiv(angle * 10, Scale)

----------------------------------------------------------------------------
(* src/api_server.py: AngleSmoother *)

\* Mutant of Append_maxlen: a full buffer gives up its newest sample.
Append_drop_newest(w, x, maxlen) ==
  IF Len(w) < maxlen THEN Append(w, x) ELSE Append(SubSeq(w, 1, maxlen - 1), x)

\* deque(maxlen = window_size).append
Append_maxlen(w, x, maxlen) ==
  IF Len(w) < maxlen THEN Append(w, x) ELSE Append(Tail(w), x)

\* AngleSmoother.smooth: the window after the append and the mean returned.
smooth_window(window, angle) == Append_maxlen(window, angle, SMOOTHING_WINDOW)

smooth_mean(window) == SeqSum(window) \div Len(window)

----------------------------------------------------------------------------
(* src/api_server.py: ExerciseAnalyzer *)

White == "white"

\* ExerciseAnalyzer.__init__
NewAnalyzer(name) ==
  [exercise_name |-> name,
   thresholds |-> EXERCISE_CONFIGS[name].thresholds,
   phase |-> "up",
   reps |-> 0,
   was_active |-> FALSE,
   status |-> "READY",
   color |-> White,
   feedback_hold_frames |-> 0,
   last_feedback |-> "READY",
   window |-> <<>>,
   rep_quality |-> <<>>,
   current_rep_min_angle |-> Deg(180)]

\* Mutant of reset: the smoother left as it is.
reset_keep_window(a) ==
  [a EXCEPT !.phase = "up", !.reps = 0, !.was_active = FALSE,
            !.rep_quality = <<>>, !.current_rep_min_angle = Deg(180)]

\* ExerciseAnalyzer.reset
reset(a) ==
  [a EXCEPT !.phase = "up", !.reps = 0, !.was_active = FALSE,
            !.rep_quality = <<>>, !.current_rep_min_angle = Deg(180),
            !.window = <<>>]

\* Mutant of calculate_rep_quality: the excellent band scored with the
\* slope of the good band.
calculate_rep_quality_slope(th, min_angle) ==
  LET excellent_mid == (th.excellent_min + th.excellent_max) \div 2
      distance == Abs(min_angle - excellent_mid)
  IN  IF distance = 0 THEN Deg(100)
      ELSE IF min_angle <= th.excellent_max THEN Max(Deg(80), Deg(100) - distance)
      ELSE IF min_angle <= th.down THEN Max(Deg(60), Deg(80) - distance)
      ELSE Max(Deg(30), Deg(60) - distance)

\* Mutant of calculate_rep_quality: no separate answer for a distance of 0.
calculate_rep_quality_branches_only(th, min_angle) ==
  LET excellent_mid == (th.excellent_min + th.excellent_max) \div 2
      distance == Abs(min_angle - excellent_mid)
  IN  IF min_angle <= th.excellent_max THEN Max(Deg(80), Deg(100) - distance * 2)
      ELSE IF min_angle <= th.down THEN Max(Deg(60), Deg(80) - distance)
      ELSE Max(Deg(30), Deg(60) - distance)

\* ExerciseAnalyzer._calculate_rep_quality, score times Scale.
calculate_rep_quality(th, min_angle) ==
  LET excellent_mid == (th.excellent_min + th.excellent_max) \div 2
      distance == Abs(min_angle - excellent_mid)
  IN  IF distance = 0 THEN Deg(100)
      ELSE IF min_angle <= th.excellent_max THEN Max(Deg(80), Deg(100) - distance * 2)
      ELSE IF min_angle <= th.down THEN Max(Deg(60), Deg(80) - distance)
      ELSE Max(Deg(30), Deg(60) - distance)

\* ExerciseAnalyzer._get_average_quality: <<>> for None, else the average
\* rounded to one decimal, in tenths.
get_average_quality(a) ==
  IF a.rep_quality = <<>> THEN <<>>
  ELSE <<RoundDiv(SeqSum(a.rep_quality) * 10, Len(a.rep_quality) * Scale)>>

\* Mutant of TrackMin: the last angle of the down phase instead of the
\* least.
TrackLast(a, angle) ==
  IF a.phase = "down"
  THEN [a EXCEPT !.current_rep_min_angle = angle]
  ELSE a

\* analyze, lines 162-164: minimum angle during the down phase.
TrackMin(a, angle) ==
  IF a.phase = "down"
  THEN [a EXCEPT !.current_rep_min_angle = Min(a.current_rep_min_angle, angle)]
  ELSE a

\* Mutant of PhaseDetect: the up transition without the hysteresis buffer.
PhaseDetectNoBuffer(a, angle) ==
  IF angle < a.thresholds.down /\ a.phase = "up"
  THEN [a EXCEPT !.phase = "down", !.was_active = TRUE,
                 !.current_rep_min_angle = angle]
  ELSE IF angle > a.thresholds.up /\ a.phase = "down"
  THEN IF a.was_active
       THEN [a EXCEPT !.phase = "up",
                      !.reps = a.reps + 1,
                      !.rep_quality = Append(a.rep_quality,
                                        calculate_rep_quality(a.thresholds, a.current_rep_min_angle)),
                      !.was_active = FALSE,
                      !.current_rep_min_angle = Deg(180),
                      !.last_feedback = EXERCISE_CONFIGS[a.exercise_name].feedback_messages.good,
                      !.feedback_hold_frames = 20]
       ELSE [a EXCEPT !.phase = "up"]
  ELSE a

\* Mutant of PhaseDetect: the down transition taken below the up threshold.
PhaseDetectSingleThreshold(a, angle) ==
  IF angle < a.thresholds.up /\ a.phase = "up"
  THEN [a EXCEPT !.phase = "down", !.was_active = TRUE,
                 !.current_rep_min_angle = angle]
  ELSE IF angle > a.thresholds.up + Deg(HYSTERESIS_BUFFER) /\ a.phase = "down"
  THEN IF a.was_active
       THEN [a EXCEPT !.phase = "up",
                      !.reps = a.reps + 1,
                      !.rep_quality = Append(a.rep_quality,
                                        calculate_rep_quality(a.thresholds, a.current_rep_min_angle)),
                      !.was_active = FALSE,
                      !.current_rep_min_angle = Deg(180),
                      !.last_feedback = EXERCISE_CONFIGS[a.exercise_name].feedback_messages.good,
                      !.feedback_hold_frames = 20]
       ELSE [a EXCEPT !.phase = "up"]
  ELSE a

\* Mutant of PhaseDetect: the down transition taken at the down threshold
\* too.
PhaseDetectAtThreshold(a, angle) ==
  IF angle <= a.thresholds.down /\ a.phase = "up"
  THEN [a EXCEPT !.phase = "down", !.was_active = TRUE,
                 !.current_rep_min_angle = angle]
  ELSE IF angle > a.thresholds.up + Deg(HYSTERESIS_BUFFER) /\ a.phase = "down"
  THEN IF a.was_active
       THEN [a EXCEPT !.phase = "up",
                      !.reps = a.reps + 1,
                      !.rep_quality = Append(a.rep_quality,
                                        calculate_rep_quality(a.thresholds, a.current_rep_min_angle)),
                      !.was_active = FALSE,
                      !.current_rep_min_angle = Deg(180),
                      !.last_feedback = EXERCISE_CONFIGS[a.exercise_name].feedback_messages.good,
                      !.feedback_hold_frames = 20]
       ELSE [a EXCEPT !.phase = "up"]
  ELSE a

\* Mutant of PhaseDetect: was_active left set when the rep is counted.
PhaseDetectFlagKept(a, angle) ==
  IF angle < a.thresholds.down /\ a.phase = "up"
  THEN [a EXCEPT !.phase = "down", !.was_active = TRUE,
                 !.current_rep_min_angle = angle]
  ELSE IF angle > a.thresholds.up + Deg(HYSTERESIS_BUFFER) /\ a.phase = "down"
  THEN IF a.was_active
       THEN [a EXCEPT !.phase = "up",
                      !.reps = a.reps + 1,
                      !.rep_quality = Append(a.rep_quality,
                                        calculate_rep_quality(a.thresholds, a.current_rep_min_angle)),
                      !.current_rep_min_angle = Deg(180),
                      !.last_feedback = EXERCISE_CONFIGS[a.exercise_name].feedback_messages.good,
                      !.feedback_hold_frames = 20]
       ELSE [a EXCEPT !.phase = "up"]
  ELSE a

\* analyze, lines 166-182: phase detection with hysteresis and rep scoring.
PhaseDetect(a, angle) ==
  IF angle < a.thresholds.down /\ a.phase = "up"
  THEN [a EXCEPT !.phase = "down", !.was_active = TRUE,
                 !.current_rep_min_angle = angle]
  ELSE IF angle > a.thresholds.up + Deg(HYSTERESIS_BUFFER) /\ a.phase = "down"
  THEN IF a.was_active
       THEN [a EXCEPT !.phase = "up",
                      !.reps = a.reps + 1,
                      !.rep_quality = Append(a.rep_quality,
                                        calculate_rep_quality(a.thresholds, a.current_rep_min_angle)),
                      !.was_active = FALSE,
                      !.current_rep_min_angle = Deg(180),
                      !.last_feedback = EXERCISE_CONFIGS[a.exercise_name].feedback_messages.good,
                      !.feedback_hold_frames = 20]
       ELSE [a EXCEPT !.phase = "up"]
  ELSE a

\* Mutant of Classify: the excellent tier tested before the too-deep tier.
ClassifyExcellentFirst(a, angle) ==
  LET msg == EXERCISE_CONFIGS[a.exercise_name].feedback_messages
      th == a.thresholds
  IN  IF a.feedback_hold_frames > 0
      THEN [a EXCEPT !.feedback_hold_frames = a.feedback_hold_frames - 1,
                     !.status = a.last_feedback, !.color = "green"]
      ELSE IF a.phase = "down"
      THEN IF angle <= th.excellent_max THEN [a EXCEPT !.status = msg.excellent, !.color = "green"]
           ELSE IF angle <= th.too_deep THEN [a EXCEPT !.status = msg.too_deep, !.color = "orange"]
           ELSE IF angle <= th.down THEN [a EXCEPT !.status = msg.good, !.color = "yellow"]
           ELSE [a EXCEPT !.status = msg.deeper, !.color = "red"]
      ELSE [a EXCEPT !.status = "READY", !.color = White]

\* analyze, lines 184-204: completion hold, then the feedback ladder.
Classify(a, angle) ==
  LET msg == EXERCISE_CONFIGS[a.exercise_name].feedback_messages
      th == a.thresholds
  IN  IF a.feedback_hold_frames > 0
      THEN [a EXCEPT !.feedback_hold_frames = a.feedback_hold_frames - 1,
                     !.status = a.last_feedback, !.color = "green"]
      ELSE IF a.phase = "down"
      THEN IF angle <= th.too_deep THEN [a EXCEPT !.status = msg.too_deep, !.color = "orange"]
           ELSE IF angle <= th.excellent_max THEN [a EXCEPT !.status = msg.excellent, !.color = "green"]
           ELSE IF angle <= th.down THEN [a EXCEPT !.status = msg.good, !.color = "yellow"]
           ELSE [a EXCEPT !.status = msg.deeper, !.color = "red"]
      ELSE [a EXCEPT !.status = "READY", !.color = White]

\* analyze, lines 162-204, on the smoothed angle.
StateMachine(a, angle) == Classify(PhaseDetect(TrackMin(a, angle), angle), angle)

\* The record analyze returns on lines 206-213.
ResultOf(a, angle) ==
  [reps |-> a.reps, phase |-> a.phase, angle |-> Round1(angle),
   status |-> a.status, color |-> a.color, quality |-> get_average_quality(a)]

\* The record analyze returns on lines 150-157.
NeutralResult(a) ==
  [reps |-> a.reps, phase |-> a.phase, angle |-> 1800,
   status |-> "POSITION YOURSELF", color |-> "gray", quality |-> <<>>]

\* analyze, line 143: the side with the more visible knee.
side_of(lm) == IF Vis(lm, Key("left", "Knee")) > Vis(lm, Key("right", "Knee")) THEN "left" ELSE "right"

\* analyze, line 146: the landmark keys of the joint chain on that side.
target_of(a, lm) ==
  LET chain == EXERCISE_CONFIGS[a.exercise_name].joint_chain
  IN  [i \in 1..3 |-> Key(side_of(lm), chain[i])]

\* Mutant of analyze_state: the smoother fed before the landmark check,
\* with 180 for a chain that is not there.
analyze_state_smooth_first(a, lm) ==
  LET target == target_of(a, lm)
  IN  IF ~(\A i \in 1..3 : target[i] \in DOMAIN lm)
      THEN [a EXCEPT !.window = smooth_window(a.window, Deg(180))]
      ELSE LET raw_angle == get_angle(lm[target[1]], lm[target[2]], lm[target[3]])
               w == smooth_window(a.window, raw_angle)
           IN  StateMachine([a EXCEPT !.window = w], smooth_mean(w))

\* ExerciseAnalyzer.analyze: the analyzer after the call.
analyze_state(a, lm) ==
  LET target == target_of(a, lm)
  IN  IF ~(\A i \in 1..3 : target[i] \in DOMAIN lm) THEN a
      ELSE LET raw_angle == get_angle(lm[target[1]], lm[target[2]], lm[target[3]])
               w == smooth_window(a.window, raw_angle)
           IN  StateMachine([a EXCEPT !.window = w], smooth_mean(w))

\* ExerciseAnalyzer.analyze: the record returned.
analyze_return(a, lm) ==
  LET target == target_of(a, lm)
  IN  IF ~(\A i \in 1..3 : target[i] \in DOMAIN lm) THEN NeutralResult(a)
      ELSE LET a2 == analyze_state(a, lm)
           IN  ResultOf(a2, smooth_mean(a2.window))

----------------------------------------------------------------------------
(* src/main.py, src/biomechanics.py: BiomechanicsCoach *)

\* numpy's nan: the result of _calculate_angle on a zero-length vector.
\* Every comparison with nan is False.
NaN == 0 - 1

Lt(x, y) == x # NaN /\ y # NaN /\ x < y

Le(x, y) == x # NaN /\ y # NaN /\ x <= y

Gt(x, y) == x # NaN /\ y # NaN /\ x > y

Ge(x, y) == x # NaN /\ y # NaN /\ x >= y

\* BiomechanicsCoach._calculate_angle: 0/0 is nan, clip and arccos keep nan.
calculate_angle(a, b, c) ==
  IF Degenerate(a, b, c) THEN NaN ELSE InscribedAngle(a, b, c)

\* The exercise catalog (complete_exercise_biomechanics_database.json):
\* one curl template whose side view has the elbow as primary joint and the
\* shoulder as stability joint, and one entry that names no template.
db ==
  [exercises |->
     [BBCurl |-> [category |-> "Biceps", uses_template |-> "curl", full_name |-> "BBCurl"],
      Stretch |-> [category |-> "Other", full_name |-> "Stretch"]],
   base_templates |->
     [curl |->
        [primary_view |-> "side",
         primary_joint |-> "elbow",
         views |->
           [side |->
              [elbow |-> [type |-> "primary", flexed |-> 45, extended |-> 170,
                          tolerance |-> 10],
               shoulder |-> [type |-> "stability", target |-> 20,
                             max_deviation |-> 15]]]]]]

\* cfg.get(k) of a numeric field: 0 stands for None, which `or` treats alike.
Get(cfg, k) == IF k \in DOMAIN cfg THEN cfg[k] ELSE 0

\* x or y
Or(x, y) == IF x # 0 THEN x ELSE y

ExerciseKeys == {key \in DOMAIN db.exercises : "uses_template" \in DOMAIN db.exercises[key]}

\* process_form, lines 154-160
pts_map_template ==
  [elbow |-> <<"shoulder", "elbow", "wrist">>,
   shoulder |-> <<"hip", "shoulder", "elbow">>,
   hip |-> <<"shoulder", "hip", "knee">>,
   knee |-> <<"hip", "knee", "ankle">>,
   ankle |-> <<"knee", "ankle", "footindex">>]

min_visibility == 6

warning_duration == 2

primary_grace == 15

BufferMaxlen == 20

\* The view configuration of an exercise, and the order in which
\* view_cfg.items() yields its joints.
view_cfg_of(key) ==
  LET template == db.base_templates[db.exercises[key].uses_template]
  IN  template.views[template.primary_view]

JointOrder == <<"elbow", "shoulder">>

\* "Stability: OK", and f"{joint}: {int(angle)} (Target ~{target})".
StabilityOK == <<"Stability: OK">>

StabilityText(joint_name, angle, target) == <<joint_name, angle \div Scale, target>>

\* f"STABILIZE {joint_name.upper()}"
IssueText ==
  [elbow |-> "STABILIZE ELBOW", shoulder |-> "STABILIZE SHOULDER",
   hip |-> "STABILIZE HIP", knee |-> "STABILIZE KNEE", ankle |-> "STABILIZE ANKLE"]

\* BiomechanicsCoach.__init__
NewCoach(key) ==
  LET template == db.base_templates[db.exercises[key].uses_template]
      primary_cfg == view_cfg_of(key)[template.primary_joint]
      flexed_target == Or(Get(primary_cfg, "flexed"), Or(Get(primary_cfg, "parallel"), Get(primary_cfg, "bent")))
      extended_target == Or(Get(primary_cfg, "extended"), Or(Get(primary_cfg, "standing"), Get(primary_cfg, "lockout")))
      primary_tolerance == IF "tolerance" \in DOMAIN primary_cfg THEN primary_cfg.tolerance ELSE 15
  IN  [exercise_key |-> key,
       primary_joint_name |-> template.primary_joint,
       flexed_target |-> Deg(flexed_target),
       extended_target |-> Deg(extended_target),
       rep_flex_threshold |-> Deg(flexed_target) + Deg(primary_tolerance) \div 2,
       rep_ext_threshold |-> Deg(extended_target) - Deg(primary_tolerance) \div 2,
       reps |-> 0,
       stage |-> "extended",
       current_angle |-> Deg(180),
       feedback |-> "READY",
       form_issue |-> "",
       joint_colors |-> <<>>,
       smoothing_buffer |-> <<>>,
       last_bad_form_time |-> 0,
       stability_feedback |-> StabilityOK]

\* process_form, lines 141-146: the side that drives the rep counter.
primary_side_of(c, lm) ==
  LET lk == Key("left", c.primary_joint_name)
      rk == Key("right", c.primary_joint_name)
  IN  IF lk \in DOMAIN lm /\ rk \in DOMAIN lm
      THEN IF lm[lk].vis >= lm[rk].vis THEN "left" ELSE "right"
      ELSE IF Vis(lm, Key("left", "elbow")) > Vis(lm, Key("right", "elbow"))
           THEN "left" ELSE "right"

\* process_form, lines 168-171: the three points of a joint on a side, with
\* the default {'x': 0, 'y': 0, 'vis': 0} for a missing key.
pts_of(lm, side, joint_name) ==
  [i \in 1..3 |->
     LET k == Key(side, pts_map_template[joint_name][i])
     IN  IF k \in DOMAIN lm THEN lm[k] ELSE [h |-> 0, vis |-> 0]]

\* process_form, line 170, negated: no point of the joint is below the
\* visibility floor (a missing key counts with its default vis 0).
joint_visible(lm, side, joint_name) ==
  \A i \in 1..3 : Vis(lm, Key(side, pts_map_template[joint_name][i])) >= min_visibility

joint_angle(lm, side, joint_name) ==
  LET pts == pts_of(lm, side, joint_name)
  IN  calculate_angle(pts[1], pts[2], pts[3])

\* Mutant of stability_violation: the joint judged whatever the visibility
\* of its landmarks.
stability_violation_unseen(c, lm, side, joint_name) ==
  LET cfg == view_cfg_of(c.exercise_key)[joint_name]
      angle == joint_angle(lm, side, joint_name)
      target == Or(Get(cfg, "target"), Or(Get(cfg, "upright"), 180))
      max_dev == Or(Get(cfg, "max_deviation"), 15)
  IN  /\ "type" \in DOMAIN cfg /\ cfg.type = "stability"
      /\ angle # NaN
      /\ Abs(angle - Deg(target)) > Deg(max_dev)

\* process_form, lines 178-185: a visible stability joint beyond its
\* maximum deviation.
stability_violation(c, lm, side, joint_name) ==
  LET cfg == view_cfg_of(c.exercise_key)[joint_name]
      angle == joint_angle(lm, side, joint_name)
      target == Or(Get(cfg, "target"), Or(Get(cfg, "upright"), 180))
      max_dev == Or(Get(cfg, "max_deviation"), 15)
  IN  /\ joint_visible(lm, side, joint_name)
      /\ "type" \in DOMAIN cfg /\ cfg.type = "stability"
      /\ angle # NaN
      /\ Abs(angle - Deg(target)) > Deg(max_dev)

Sides == <<"left", "right">>

\* The (side, joint) pairs in the order of the two loops of lines 164-165.
LoopOrder ==
  [i \in 1..(2 * Len(JointOrder)) |->
     <<Sides[((i - 1) \div Len(JointOrder)) + 1], JointOrder[((i - 1) % Len(JointOrder)) + 1]>>]

\* process_form, line 184: the (side, joint) pairs that append to
\* current_issues, in loop order.
RECURSIVE issues_from(_, _, _)
issues_from(c, lm, i) ==
  IF i > Len(LoopOrder) THEN <<>>
  ELSE LET sj == LoopOrder[i]
       IN  IF stability_violation(c, lm, sj[1], sj[2])
           THEN <<sj>> \o issues_from(c, lm, i + 1)
           ELSE issues_from(c, lm, i + 1)

current_issues_of(c, lm) == issues_from(c, lm, 1)

\* process_form, lines 163, 175-176: the primary angle of a side, 180 when
\* the primary joint of that side is not visible.
primary_angle_of(c, lm, side) ==
  IF joint_visible(lm, side, c.primary_joint_name)
  THEN joint_angle(lm, side, c.primary_joint_name)
  ELSE Deg(180)

\* Mutant of form_ok_of: the operands of the subtraction exchanged.
form_ok_of_swapped(c, current_timestamp) ==
  (c.last_bad_form_time - current_timestamp) >= warning_duration

\* process_form, line 206
form_ok_of(c, current_timestamp) ==
  (current_timestamp - c.last_bad_form_time) >= warning_duration

\* Mutant of joint_colors_of: the primary joint colored on its angle alone.
joint_colors_of_angle_only(c, lm, form_ok, issues) ==
  LET visible == {sj \in {<<s, j>> : s \in {"left", "right"}, j \in DOMAIN view_cfg_of(c.exercise_key)} :
                    joint_visible(lm, sj[1], sj[2])}
  IN  [sj \in visible |->
         IF sj[2] = c.primary_joint_name
         THEN LET angle == primary_angle_of(c, lm, sj[1])
                  at_full_extension == Ge(angle, c.rep_ext_threshold - Deg(primary_grace))
                  at_good_depth == Le(angle, c.rep_flex_threshold + Deg(primary_grace))
              IN  IF at_full_extension \/ at_good_depth THEN "green" ELSE "red"
         ELSE IF \E i \in 1..Len(issues) : issues[i] = sj THEN "red" ELSE "green"]

\* process_form, lines 187 and 215-227: the color of every visible joint.
joint_colors_of(c, lm, form_ok, issues) ==
  LET visible == {sj \in {<<s, j>> : s \in {"left", "right"}, j \in DOMAIN view_cfg_of(c.exercise_key)} :
                    joint_visible(lm, sj[1], sj[2])}
  IN  [sj \in visible |->
         IF sj[2] = c.primary_joint_name
         THEN LET angle == primary_angle_of(c, lm, sj[1])
                  at_full_extension == Ge(angle, c.rep_ext_threshold - Deg(primary_grace))
                  at_good_depth == Le(angle, c.rep_flex_threshold + Deg(primary_grace))
              IN  IF form_ok /\ (at_full_extension \/ at_good_depth) THEN "green" ELSE "red"
         ELSE IF \E i \in 1..Len(issues) : issues[i] = sj THEN "red" ELSE "green"]

\* process_form, lines 193-211: the feedback text.
feedback_of(c, angle, form_ok) ==
  IF ~form_ok THEN "FIX FORM"
  ELSE IF c.stage = "extended"
  THEN IF Gt(angle, c.rep_flex_threshold) THEN "GO FURTHER" ELSE "GOOD DEPTH"
  ELSE IF Lt(angle, c.rep_ext_threshold) THEN "FULL EXTENSION" ELSE "GOOD EXTENSION"

CountFalse(buf) == Cardinality({i \in 1..Len(buf) : ~buf[i]})

\* Mutant of RepCounter: a rep counted once for each side.
RepCounterBothSides(c, form_ok) ==
  IF ~form_ok THEN c
  ELSE LET c1 == IF Le(c.current_angle, c.rep_flex_threshold) /\ c.stage = "extended"
                 THEN [c EXCEPT !.stage = "flexed"] ELSE c
       IN  IF Ge(c1.current_angle, c1.rep_ext_threshold) /\ c1.stage = "flexed"
           THEN [c1 EXCEPT !.reps = c1.reps + 2, !.stage = "extended"]
           ELSE c1

\* Mutant of RepCounter: the rep counter run whatever the form.
RepCounterNoFormCheck(c, form_ok) ==
  LET c1 == IF Le(c.current_angle, c.rep_flex_threshold) /\ c.stage = "extended"
            THEN [c EXCEPT !.stage = "flexed"] ELSE c
  IN  IF Ge(c1.current_angle, c1.rep_ext_threshold) /\ c1.stage = "flexed"
      THEN [c1 EXCEPT !.reps = c1.reps + 1, !.stage = "extended"]
      ELSE c1

\* Mutant of RepCounter: the thresholds must be passed, not reached.
RepCounterStrict(c, form_ok) ==
  IF ~form_ok THEN c
  ELSE LET c1 == IF Lt(c.current_angle, c.rep_flex_threshold) /\ c.stage = "extended"
                 THEN [c EXCEPT !.stage = "flexed"] ELSE c
       IN  IF Gt(c1.current_angle, c1.rep_ext_threshold) /\ c1.stage = "flexed"
           THEN [c1 EXCEPT !.reps = c1.reps + 1, !.stage = "extended"]
           ELSE c1

\* process_form, lines 237-248: the rep counter on the primary angle.
RepCounter(c, form_ok) ==
  IF ~form_ok THEN c
  ELSE LET c1 == IF Le(c.current_angle, c.rep_flex_threshold) /\ c.stage = "extended"
                 THEN [c EXCEPT !.stage = "flexed"] ELSE c
       IN  IF Ge(c1.current_angle, c1.rep_ext_threshold) /\ c1.stage = "flexed"
           THEN [c1 EXCEPT !.reps = c1.reps + 1, !.stage = "extended"]
           ELSE c1

\* process_form, lines 151 and 185: the text of the last violation in loop
\* order, or "Stability: OK".
stability_feedback_of(c, lm, issues) ==
  IF issues = <<>> THEN StabilityOK
  ELSE LET sj == issues[Len(issues)]
           cfg == view_cfg_of(c.exercise_key)[sj[2]]
       IN  StabilityText(sj[2], joint_angle(lm, sj[1], sj[2]),
                         Or(Get(cfg, "target"), Or(Get(cfg, "upright"), 180)))

\* Mutant of process_form: the non-excellent count compared with 30% of
\* the flags the window holds.
process_form_of_fill(c, lm, current_timestamp) ==
  LET current_issues == current_issues_of(c, lm)
      frame_is_excellent == current_issues = <<>>
      angle == primary_angle_of(c, lm, primary_side_of(c, lm))
      form_ok == form_ok_of(c, current_timestamp)
      buf == Append_maxlen(c.smoothing_buffer, frame_is_excellent, BufferMaxlen)
      bad == CountFalse(buf) * 10 > Len(buf) * 3
      c1 == [c EXCEPT !.current_angle = angle,
                      !.feedback = feedback_of(c, angle, form_ok),
                      !.form_issue = IF current_issues = <<>> THEN ""
                                      ELSE IssueText[current_issues[1][2]],
                      !.joint_colors = joint_colors_of(c, lm, form_ok, current_issues),
                      !.stability_feedback = stability_feedback_of(c, lm, current_issues),
                      !.smoothing_buffer = buf,
                      !.last_bad_form_time = IF bad THEN current_timestamp
                                             ELSE c.last_bad_form_time]
  IN  RepCounter(c1, form_ok)

\* BiomechanicsCoach.process_form: the coach after the call.
process_form(c, lm, current_timestamp) ==
  LET current_issues == current_issues_of(c, lm)
      frame_is_excellent == current_issues = <<>>
      angle == primary_angle_of(c, lm, primary_side_of(c, lm))
      form_ok == form_ok_of(c, current_timestamp)
      buf == Append_maxlen(c.smoothing_buffer, frame_is_excellent, BufferMaxlen)
      bad == CountFalse(buf) * 10 > BufferMaxlen * 3
      c1 == [c EXCEPT !.current_angle = angle,
                      !.feedback = feedback_of(c, angle, form_ok),
                      !.form_issue = IF current_issues = <<>> THEN ""
                                      ELSE IssueText[current_issues[1][2]],
                      !.joint_colors = joint_colors_of(c, lm, form_ok, current_issues),
                      !.stability_feedback = stability_feedback_of(c, lm, current_issues),
                      !.smoothing_buffer = buf,
                      !.last_bad_form_time = IF bad THEN current_timestamp
                                             ELSE c.last_bad_form_time]
  IN  RepCounter(c1, form_ok)

----------------------------------------------------------------------------
(* Catalog entries before the validators and the constructor.  A template   *)
(* is a record of the fields its JSON object has; a dict is a function on   *)
(* its keys, and the order in which the primary view yields its joints is   *)
(* given beside it.                                                         *)

\* JSON null, and what dict.get answers for a key that is not there.
None == 0 - 2

\* cfg.get(k)
dict_get(cfg, k) == IF k \in DOMAIN cfg THEN cfg[k] ELSE None

\* x or y, on numbers and None
py_or(x, y) == IF x = None \/ x = 0 THEN y ELSE x

\* next(iter(d)) of a dict with one key
first_key(d) == CHOOSE k \in DOMAIN d : TRUE

\* The primary view: template.get('primary_view', 'side'), or the first
\* view when that one is not among the views.
primary_view_name_of(template) ==
  LET name == IF "primary_view" \in DOMAIN template THEN template.primary_view ELSE "side"
  IN  IF name \in DOMAIN template.views THEN name ELSE first_key(template.views)

\* The joints of the view that are marked primary, in the order of the view.
primary_typed(view_cfg, order) ==
  SelectSeq(order, LAMBDA j : "type" \in DOMAIN view_cfg[j] /\ view_cfg[j].type = "primary")

\* The for / else that replaces a primary joint the view does not have: the
\* first joint marked primary, or else the first joint.
fallback_joint(view_cfg, order) ==
  IF primary_typed(view_cfg, order) # <<>> THEN primary_typed(view_cfg, order)[1]
  ELSE order[1]

\* flexed or parallel or bent; extended or standing or lockout
flexed_of(primary_cfg) ==
  py_or(dict_get(primary_cfg, "flexed"),
        py_or(dict_get(primary_cfg, "parallel"), dict_get(primary_cfg, "bent")))

extended_of(primary_cfg) ==
  py_or(dict_get(primary_cfg, "extended"),
        py_or(dict_get(primary_cfg, "standing"), dict_get(primary_cfg, "lockout")))

\* is_exercise_valid_for_ui of main.py, from the template on.
valid_template_main(template, order) ==
  IF "views" \notin DOMAIN template \/ DOMAIN template.views = {} THEN FALSE
  ELSE LET view_cfg == template.views[primary_view_name_of(template)]
       IN  IF DOMAIN view_cfg = {} THEN FALSE
           ELSE IF "primary_joint" \notin DOMAIN template THEN FALSE
           ELSE LET joint == IF template.primary_joint \in DOMAIN view_cfg
                             THEN template.primary_joint
                             ELSE fallback_joint(view_cfg, order)
                    primary_cfg == view_cfg[joint]
                IN  IF DOMAIN primary_cfg = {} THEN FALSE
                    ELSE flexed_of(primary_cfg) # None /\ extended_of(primary_cfg) # None

\* is_exercise_valid_for_ui of biomechanics.py, from the template on: a
\* template without primary_joint goes to the fallback, and an exception
\* (next(iter()) of an empty view) answers False.
valid_template_bio(template, order) ==
  IF "views" \notin DOMAIN template \/ DOMAIN template.views = {} THEN FALSE
  ELSE LET view_cfg == template.views[primary_view_name_of(template)]
       IN  IF DOMAIN view_cfg = {} THEN FALSE
           ELSE LET joint == IF /\ "primary_joint" \in DOMAIN template
                                /\ template.primary_joint \in DOMAIN view_cfg
                             THEN template.primary_joint
                             ELSE fallback_joint(view_cfg, order)
                    primary_cfg == view_cfg[joint]
                IN  flexed_of(primary_cfg) # None /\ extended_of(primary_cfg) # None

\* What the constructor leaves, or the exception it raises.
Raised(exception) == [error |-> exception]

\* BiomechanicsCoach.__init__ (main.py and biomechanics.py alike), from the
\* template on, up to the rep thresholds.
construct(template, order) ==
  IF "views" \notin DOMAIN template THEN Raised("KeyError")
  ELSE IF DOMAIN template.views = {} THEN Raised("StopIteration")
  ELSE LET view_cfg == template.views[primary_view_name_of(template)]
       IN  IF "primary_joint" \notin DOMAIN template THEN Raised("KeyError")
           ELSE IF template.primary_joint \notin DOMAIN view_cfg /\ DOMAIN view_cfg = {}
           THEN Raised("StopIteration")
           ELSE LET joint == IF template.primary_joint \in DOMAIN view_cfg
                             THEN template.primary_joint
                             ELSE fallback_joint(view_cfg, order)
                    primary_cfg == view_cfg[joint]
                    flexed_target == flexed_of(primary_cfg)
                    extended_target == extended_of(primary_cfg)
                    primary_tolerance == IF "tolerance" \in DOMAIN primary_cfg
                                         THEN primary_cfg.tolerance ELSE 15
                IN  IF flexed_target = None \/ primary_tolerance = None
                    THEN Raised("TypeError")
                    ELSE IF extended_target = None THEN Raised("TypeError")
                    ELSE [error |-> "",
                          primary_joint_name |-> joint,
                          flexed_target |-> Deg(flexed_target),
                          extended_target |-> Deg(extended_target),
                          rep_flex_threshold |-> Deg(flexed_target) + Deg(primary_tolerance) \div 2,
                          rep_ext_threshold |-> Deg(extended_target) - Deg(primary_tolerance) \div 2]

\* is_exercise_valid_for_ui of main.py on the catalog db.
is_exercise_valid_for_ui(exercise_key) ==
  IF exercise_key \notin DOMAIN db.exercises THEN FALSE
  ELSE LET ex_info == db.exercises[exercise_key]
       IN  IF "uses_template" \notin DOMAIN ex_info THEN FALSE
           ELSE IF ex_info.uses_template \notin DOMAIN db.base_templates THEN FALSE
           ELSE valid_template_main(db.base_templates[ex_info.uses_template], JointOrder)

----------------------------------------------------------------------------
(* Landmark maps supplied by the pose source *)

\* A pose whose joint chain (proximal, vertex, distal) makes the angle theta
\* at the vertex: the vertex at heading 0, the other two at 180 -/+ theta.
\* theta = 180 puts all three on the same point.
ChainHeading(i, theta) ==
  IF i = 1 THEN (180 - theta) % 360 ELSE IF i = 2 THEN 0 ELSE (180 + theta) % 360

RawAngles == {20, 180}

AnalyzerJoints(name) ==
  {EXERCISE_CONFIGS[name].joint_chain[i] : i \in 1..3} \cup {"Knee"}

ChainIndex(name, j) ==
  IF \E i \in 1..3 : EXERCISE_CONFIGS[name].joint_chain[i] = j
  THEN CHOOSE i \in 1..3 : EXERCISE_CONFIGS[name].joint_chain[i] = j
  ELSE 2

\* The landmark map of a pose with chain angle theta, knee visibilities
\* visL and visR, and the keys in `absent` left out.
AnalyzerLm(name, theta, visL, visR, absent) ==
  [k \in ({"left", "right"} \X AnalyzerJoints(name)) \ absent |->
     [h |-> ChainHeading(ChainIndex(name, k[2]), theta),
      vis |-> IF k[1] = "left" THEN visL ELSE visR]]

\* Poses seen from the left (knee visibilities 0.9 / 0.5), poorly visible
\* poses (0.5 / 0.3), poses without the left distal landmark, and poses
\* without the vertex landmark of either side.
AnalyzerFrames(name) ==
  LET vertex == EXERCISE_CONFIGS[name].joint_chain[2]
      distal == EXERCISE_CONFIGS[name].joint_chain[3]
  IN  {AnalyzerLm(name, theta, 9, 5, {}) : theta \in RawAngles}
        \cup {AnalyzerLm(name, theta, 5, 3, {}) : theta \in RawAngles}
        \cup {AnalyzerLm(name, theta, 9, 5, {Key("left", distal)}) : theta \in RawAngles}
        \cup {AnalyzerLm(name, theta, 9, 5, {Key("left", vertex), Key("right", vertex)}) :
                 theta \in RawAngles}

\* The poses each exercise is fed.
FramesOf == [name \in ExerciseNames |-> AnalyzerFrames(name)]

\* Threshold sets POSTed to /api/load-calibration: the shipped ones and a
\* calibration with the up threshold 10 degrees lower.
Calibrations(name) ==
  {EXERCISE_CONFIGS[name].thresholds,
   [EXERCISE_CONFIGS[name].thresholds EXCEPT !.up = @ - Deg(10)]}

StabilityAngles == {20, 60}

CoachHeading(j, theta, sigma) ==
  IF j = "shoulder" THEN ChainHeading(1, theta)
  ELSE IF j = "elbow" THEN ChainHeading(2, theta)
  ELSE IF j = "wrist" THEN ChainHeading(3, theta)
  ELSE (360 - 2 * sigma) % 360

\* The landmark map of a pose with elbow angle theta and shoulder angle
\* sigma on both sides.  Pattern "lowvis" has the left wrist below the
\* visibility floor, "missing" has no left wrist, "hiplow" has both hips
\* below the floor, "lefthiplow" the left hip only.
CoachLm(theta, sigma, pat) ==
  LET keys == {"left", "right"} \X {"shoulder", "elbow", "wrist", "hip"}
      absent == IF pat = "missing" THEN {Key("left", "wrist")} ELSE {}
  IN  [k \in keys \ absent |->
         [h |-> CoachHeading(k[2], theta, sigma),
          vis |-> IF pat = "lowvis" /\ k = Key("left", "wrist") THEN 5
                  ELSE IF pat = "hiplow" /\ k[2] = "hip" THEN 5
                  ELSE IF pat = "lefthiplow" /\ k = Key("left", "hip") THEN 5
                  ELSE 9]]

\* Fully visible poses at both ends of the range with a stable and an
\* unstable shoulder, a mid-range pose, a pose with all three elbow-chain
\* points coincident, and poses with hidden or missing landmarks.
CoachFrames ==
  {CoachLm(theta, sigma, "all") : theta \in {45, 170}, sigma \in StabilityAngles}
    \cup {CoachLm(100, 20, "all"), CoachLm(180, 20, "all")}
    \cup {CoachLm(45, 20, "lowvis"), CoachLm(45, 20, "missing"), CoachLm(45, 60, "hiplow")}

\* Poses for the joint colors: the elbow beyond full flexion, at both ends,
\* between them and with coincident points, each with a stable and an
\* unstable shoulder, and unstable-shoulder poses with hidden landmarks.
JointFrames ==
  {CoachLm(theta, sigma, "all") : theta \in {20, 45, 100, 170, 180}, sigma \in StabilityAngles}
    \cup {CoachLm(45, 60, pat) : pat \in {"lowvis", "hiplow", "lefthiplow"}}

\* The fully visible poses of scenario C, with a stable shoulder.
ScenarioCFrames ==
  {CoachLm(theta, 20, "all") : theta \in {49, 50, 90, 160, 166, 170}}

\* Exercises named in requests to api_server.py: two it has and one it has
\* not.
RequestNames == {"squat", "bicep_curl", "lunge"}

\* Full-body poses for those requests, seen from the left: every joint
\* chain bent to 20 degrees, or every chain at the degenerate 180.
RegistryFrames ==
  {[k \in {"left", "right"} \X {"Hip", "Knee", "Ankle", "Shoulder", "Elbow", "Wrist"} |->
      [h |-> ChainHeading(IF k[2] \in {"Hip", "Shoulder"} THEN 1
                          ELSE IF k[2] \in {"Knee", "Elbow"} THEN 2 ELSE 3, theta),
       vis |-> IF k[1] = "left" THEN 9 ELSE 5]] : theta \in RawAngles}

\* Poses for the selection requests: both ends of the range, with a stable
\* shoulder.
SelectFrames == {CoachLm(45, 20, "all"), CoachLm(170, 20, "all")}

\* Keys POSTed to /api/select_exercise: those of the catalog, none, and one
\* the catalog does not have.
RequestKeys == DOMAIN db.exercises \cup {"", "Lunge"}

\* The smoothed angles of scenario A, and one more on each side of each
\* threshold.
SmoothedAngles == {Deg(d) : d \in {180, 170, 166, 165, 120, 110, 109, 100, 90, 60}}

\* Catalog templates: the primary joint's entry with or without each of its
\* fields (tolerance also null), alone in its view or after a stability
\* joint, the view named side or front or empty, views present, empty or
\* missing, primary_view and primary_joint present or missing, and a
\* primary_joint the view does not have.
PrimaryCfgs ==
  {a @@ b @@ c @@ d @@ e @@ f :
     a \in {<<>>, [type |-> "primary"]},
     b \in {<<>>, [flexed |-> 0], [flexed |-> 45]},
     c \in {<<>>, [bent |-> 30]},
     d \in {<<>>, [extended |-> 170]},
     e \in {<<>>, [lockout |-> 160]},
     f \in {<<>>, [tolerance |-> 10], [tolerance |-> None]}}

StabilityCfg == [type |-> "stability", target |-> 20, max_deviation |-> 15]

OrderedViews ==
  {[view_cfg |-> <<>>, order |-> <<>>]}
    \cup {[view_cfg |-> [elbow |-> pc], order |-> <<"elbow">>] : pc \in PrimaryCfgs}
    \cup {[view_cfg |-> [shoulder |-> StabilityCfg, elbow |-> pc],
           order |-> <<"shoulder", "elbow">>] : pc \in PrimaryCfgs}

CatalogEntries ==
  {[template |-> pv @@ pj @@ [views |-> (view_name :> ov.view_cfg)], order |-> ov.order] :
     pv \in {<<>>, [primary_view |-> "side"]},
     pj \in {<<>>, [primary_joint |-> "elbow"], [primary_joint |-> "knee"]},
     ov \in OrderedViews,
     view_name \in {"side", "front"}}
    \cup {[template |-> pj @@ vs, order |-> <<>>] :
            pj \in {<<>>, [primary_joint |-> "elbow"]},
            vs \in {<<>>, [views |-> <<>>]}}

----------------------------------------------------------------------------
(* Scenarios of the specification *)

ScnOff == 0 - 1

ScenarioA == <<180, 170, 120, 100, 90, 100, 120, 165, 180>>

ScenarioC == <<170, 160, 90, 50, 49, 90, 166, 170>>

Advance(scn, scenario, angle) ==
  IF scn # ScnOff /\ scn < Len(scenario) /\ angle = Deg(scenario[scn + 1])
  THEN scn + 1 ELSE ScnOff

----------------------------------------------------------------------------
(* Operations *)

NoResult ==
  [reps |-> 0, phase |-> "up", angle |-> 0, status |-> "", color |-> "",
   quality |-> <<>>]

\* No request answered yet; a success; an error with its HTTP status.
NoResponse == [code |-> 0, error |-> ""]

OK == [code |-> 200, error |-> ""]

Error(code, message) == [code |-> code, error |-> message]

InitCommon ==
  /\ response = NoResponse
  /\ catalog = <<>>
  /\ api_globals = <<>>
  /\ conc = <<>>
  /\ analyze_result = NoResult
  /\ coach = NewCoach("BBCurl")
  /\ analysis_active = FALSE
  /\ now = 0
  /\ frame_count = 0
  /\ op = "init"
  /\ scnC = 0

\* api_server.py serving one of its exercises.
InitAnalyzer ==
  /\ server = "api_server"
  /\ \E name \in ExerciseNames : analyzer = NewAnalyzer(name)
  /\ scnA = ScnOff
  /\ InitCommon

\* main.py after the module-level construction of the coach.
InitCoach ==
  /\ server = "main"
  /\ analyzer = NewAnalyzer("squat")
  /\ scnA = ScnOff
  /\ InitCommon

\* The squat analyzer, about to be fed smoothed angles.
InitStateMachine ==
  /\ server = "api_server"
  /\ analyzer = NewAnalyzer("squat")
  /\ scnA = 0
  /\ InitCommon

Init == InitAnalyzer \/ InitCoach

CoachVars == <<coach, analysis_active, now, frame_count, scnC>>

AnalyzerVars == <<analyzer, analyze_result, scnA>>

\* POST /api/analyze/image: one frame through ExerciseAnalyzer.analyze.
Analyze(lm) ==
  /\ server = "api_server"
  /\ analyzer.reps < MaxReps
  /\ analyzer' = analyze_state(analyzer, lm)
  /\ analyze_result' = analyze_return(analyzer, lm)
  /\ op' = "analyze"
  /\ scnA' = ScnOff
  /\ UNCHANGED <<server, response, catalog, api_globals, conc, CoachVars>>

\* The part of analyze after the smoother (lines 162-213), with the
\* smoothed angle given as the scenarios of the specification give it.
AnalyzeSmoothed(angle) ==
  /\ server = "api_server"
  /\ analyzer.reps < MaxReps
  /\ analyzer' = StateMachine(analyzer, angle)
  /\ analyze_result' = ResultOf(analyzer', angle)
  /\ op' = "analyze"
  /\ scnA' = Advance(scnA, ScenarioA, angle)
  /\ UNCHANGED <<server, response, catalog, api_globals, conc, CoachVars>>

\* POST /api/analyze/reset
reset_session ==
  /\ server = "api_server"
  /\ analyzer' = reset(analyzer)
  /\ op' = "reset"
  /\ scnA' = ScnOff
  /\ UNCHANGED <<server, response, catalog, api_globals, conc, analyze_result, CoachVars>>

\* POST /api/load-calibration for the exercise being served: the thresholds
\* replace those of EXERCISE_CONFIGS and a new analyzer is constructed, which
\* takes them.
load_calibration(thresholds) ==
  /\ server = "api_server"
  /\ analyzer' = [NewAnalyzer(analyzer.exercise_name) EXCEPT !.thresholds = thresholds]
  /\ op' = "load_calibration"
  /\ scnA' = ScnOff
  /\ UNCHANGED <<server, response, catalog, api_globals, conc, analyze_result, CoachVars>>

\* generate_frames, lines 425-433: one frame with pose landmarks while
\* analysis is active, through process_form under exercise_lock.
ProcessFrame(lm, current_time) ==
  /\ server = "main"
  /\ analysis_active
  /\ frame_count < MaxFrames
  /\ current_time >= now
  /\ now' = current_time
  /\ frame_count' = frame_count + 1
  /\ coach' = process_form(coach, lm, current_time)
  /\ op' = "process_form"
  /\ scnC' = IF /\ form_ok_of(coach, current_time)
                /\ current_issues_of(coach, lm) = <<>>
                /\ joint_visible(lm, primary_side_of(coach, lm), coach.primary_joint_name)
             THEN Advance(scnC, ScenarioC, coach'.current_angle)
             ELSE ScnOff
  /\ UNCHANGED <<server, response, catalog, api_globals, conc, analysis_active, AnalyzerVars>>

\* Mutant of select_exercise: the coach re-targeted in place, its
\* counters and window kept.
select_exercise_in_place(exercise_key) ==
  /\ server = "main"
  /\ coach' = [coach EXCEPT !.exercise_key = exercise_key,
                            !.rep_flex_threshold = NewCoach(exercise_key).rep_flex_threshold,
                            !.rep_ext_threshold = NewCoach(exercise_key).rep_ext_threshold]
  /\ op' = "select_exercise"
  /\ response' = OK
  /\ scnC' = 0
  /\ UNCHANGED <<server, catalog, api_globals, conc, analysis_active, now, frame_count, AnalyzerVars>>

\* Mutant of select_exercise: a key the catalog does not have answered with
\* the coach of the default exercise.
select_exercise_default(exercise_key) ==
  /\ server = "main"
  /\ op' = "select_exercise"
  /\ IF exercise_key = ""
     THEN response' = Error(400, "No exercise_key provided") /\ UNCHANGED <<coach, scnC>>
     ELSE IF exercise_key \in DOMAIN db.exercises /\ ~is_exercise_valid_for_ui(exercise_key)
     THEN response' = Error(400, "Exercise has no metrics; cannot use for analysis")
          /\ UNCHANGED <<coach, scnC>>
     ELSE /\ coach' = NewCoach(IF exercise_key \in DOMAIN db.exercises
                               THEN exercise_key ELSE "BBCurl")
          /\ response' = OK /\ scnC' = 0
  /\ UNCHANGED <<server, catalog, api_globals, conc, analysis_active, now, frame_count, AnalyzerVars>>

\* POST /api/select_exercise: a request without a key, with a key the
\* catalog does not have, or with one the validator refuses, is answered
\* with an error before the lock is taken; otherwise a new coach replaces
\* the old one.
select_exercise(exercise_key) ==
  /\ server = "main"
  /\ op' = "select_exercise"
  /\ IF exercise_key = ""
     THEN response' = Error(400, "No exercise_key provided") /\ UNCHANGED <<coach, scnC>>
     ELSE IF exercise_key \notin DOMAIN db.exercises
     THEN response' = Error(404, "not found") /\ UNCHANGED <<coach, scnC>>
     ELSE IF ~is_exercise_valid_for_ui(exercise_key)
     THEN response' = Error(400, "Exercise has no metrics; cannot use for analysis")
          /\ UNCHANGED <<coach, scnC>>
     ELSE coach' = NewCoach(exercise_key) /\ response' = OK /\ scnC' = 0
  /\ UNCHANGED <<server, catalog, api_globals, conc, analysis_active, now, frame_count, AnalyzerVars>>

\* POST /api/analysis/start
start_analysis ==
  /\ server = "main"
  /\ coach' = [coach EXCEPT !.reps = 0, !.stage = "extended", !.feedback = "READY",
                            !.form_issue = "", !.stability_feedback = StabilityOK]
  /\ analysis_active' = TRUE
  /\ op' = "start_analysis"
  /\ response' = OK
  /\ scnC' = IF scnC = 0 THEN 0 ELSE ScnOff
  /\ UNCHANGED <<server, catalog, api_globals, conc, now, frame_count, AnalyzerVars>>

\* POST /api/analysis/stop
stop_analysis ==
  /\ server = "main"
  /\ analysis_active' = FALSE
  /\ op' = "stop_analysis"
  /\ response' = OK
  /\ UNCHANGED <<server, catalog, api_globals, conc, coach, now, frame_count, scnC, AnalyzerVars>>

\* main.py with its threads: the generate_frames loop and the request
\* handlers, which meet at exercise_lock.  conc holds the lock, the position
\* of the loop in its iteration (idle, in_process_form, draw, dashboard), the
\* coach instance `self` of the call in flight with the fields it read on
\* entry, the frame, the local `reps`, the joint colors read for the
\* skeleton, the last frame rendered, the number of the active coach
\* instance, and (after) the coach as the loop's own call left it.
InitLock ==
  /\ server = "main"
  /\ analyzer = NewAnalyzer("squat")
  /\ scnA = ScnOff
  /\ analyze_result = NoResult
  /\ coach = NewCoach("BBCurl")
  /\ analysis_active = FALSE
  /\ now = 0
  /\ frame_count = 0
  /\ op = "init"
  /\ scnC = ScnOff
  /\ response = NoResponse
  /\ catalog = <<>>
  /\ api_globals = <<>>
  /\ conc = [lock |-> "free", pc |-> "idle", inst |-> 0, self |-> 0,
             seen |-> NewCoach("BBCurl"), lm |-> <<>>, t |-> 0, reps |-> 0,
             after |-> NewCoach("BBCurl"), colors |-> <<>>,
             out |-> [reps |-> 0, colors |-> <<>>, feedback |-> "", form_issue |-> ""]]

\* A lock that excludes nobody.
CanEnterAlways(lock) == TRUE

\* `with exercise_lock:` can be entered.
CanEnter(lock) == lock = "free"

LockUnchanged == UNCHANGED <<server, catalog, api_globals, scnC, AnalyzerVars>>

\* generate_frames, lines 430-431: the loop takes the lock and calls
\* process_form on the global coach, which reads the coach.
FrameBegin(lm, current_time) ==
  /\ server = "main"
  /\ analysis_active
  /\ conc.pc = "idle"
  /\ frame_count < MaxLockFrames
  /\ current_time >= now
  /\ CanEnter(conc.lock)
  /\ conc' = [conc EXCEPT !.lock = "frame", !.pc = "in_process_form", !.self = conc.inst,
                          !.seen = coach, !.lm = lm, !.t = current_time]
  /\ now' = current_time
  /\ frame_count' = frame_count + 1
  /\ op' = "process_form_begin"
  /\ UNCHANGED <<coach, analysis_active, response>>
  /\ LockUnchanged

\* The call writes its results to its coach, returns reps and leaves the
\* lock.
FrameEnd ==
  LET result == process_form(conc.seen, conc.lm, conc.t)
  IN  /\ server = "main"
      /\ conc.pc = "in_process_form"
      /\ coach' = IF conc.self = conc.inst THEN result ELSE coach
      /\ conc' = [conc EXCEPT !.lock = "free", !.pc = "draw", !.reps = result.reps,
                              !.after = result, !.seen = result, !.lm = <<>>]
      /\ op' = "process_form"
      /\ UNCHANGED <<analysis_active, now, frame_count, response>>
      /\ LockUnchanged

\* generate_frames, lines 440-449: under the lock again, the joint colors
\* of the global coach are read for the skeleton.
Draw ==
  /\ server = "main"
  /\ conc.pc = "draw"
  /\ CanEnter(conc.lock)
  /\ conc' = [conc EXCEPT !.pc = "dashboard", !.colors = coach.joint_colors]
  /\ op' = "draw"
  /\ UNCHANGED <<coach, analysis_active, now, frame_count, response>>
  /\ LockUnchanged

\* generate_frames, lines 452-469: the local reps is drawn, then, under the
\* lock a third time, the feedback and the form issue of the global coach.
Dashboard ==
  /\ server = "main"
  /\ conc.pc = "dashboard"
  /\ CanEnter(conc.lock)
  /\ conc' = [conc EXCEPT !.pc = "idle",
                          !.out = [reps |-> conc.reps, colors |-> conc.colors,
                                   feedback |-> coach.feedback,
                                   form_issue |-> coach.form_issue]]
  /\ op' = "render"
  /\ UNCHANGED <<coach, analysis_active, now, frame_count, response>>
  /\ LockUnchanged

\* POST /api/select_exercise in its own thread: the errors are answered
\* without the lock, the coach is replaced under it.
select_exercise_request(exercise_key) ==
  /\ server = "main"
  /\ op' = "select_exercise"
  /\ IF exercise_key = ""
     THEN response' = Error(400, "No exercise_key provided") /\ UNCHANGED <<coach, conc>>
     ELSE IF exercise_key \notin DOMAIN db.exercises
     THEN response' = Error(404, "not found") /\ UNCHANGED <<coach, conc>>
     ELSE IF ~is_exercise_valid_for_ui(exercise_key)
     THEN response' = Error(400, "Exercise has no metrics; cannot use for analysis")
          /\ UNCHANGED <<coach, conc>>
     ELSE /\ CanEnter(conc.lock)
          /\ conc.inst < MaxSwitches
          /\ coach' = NewCoach(exercise_key)
          /\ conc' = [conc EXCEPT !.inst = @ + 1]
          /\ response' = OK
  /\ UNCHANGED <<analysis_active, now, frame_count>>
  /\ LockUnchanged

\* POST /api/analysis/start in its own thread: the counters of the coach
\* are reset under the lock.
start_analysis_request ==
  /\ server = "main"
  /\ CanEnter(conc.lock)
  /\ coach' = [coach EXCEPT !.reps = 0, !.stage = "extended", !.feedback = "READY",
                            !.form_issue = "", !.stability_feedback = StabilityOK]
  /\ analysis_active' = TRUE
  /\ op' = "start_analysis"
  /\ response' = OK
  /\ UNCHANGED <<conc, now, frame_count>>
  /\ LockUnchanged

NextLock ==
  \/ \E lm \in SelectFrames, t \in 0..MaxTime : FrameBegin(lm, t)
  \/ FrameEnd
  \/ Draw
  \/ Dashboard
  \/ \E key \in RequestKeys : select_exercise_request(key)
  \/ start_analysis_request
  \/ stop_analysis

\* ExerciseAnalyzer(exercise): the configuration is that of the lowercased
\* name, or the squat one when EXERCISE_CONFIGS has no such name; the
\* thresholds are those EXERCISE_CONFIGS holds at the time.  The record's
\* exercise_name names the configuration in use.
ExerciseAnalyzer(exercise, g) ==
  LET config_name == IF exercise \in ExerciseNames THEN exercise ELSE "squat"
  IN  [NewAnalyzer(config_name) EXCEPT !.thresholds = g.thresholds[config_name]]

\* api_server.py before its first request: no analyzer, the shipped
\* thresholds, no request served.
InitRegistry ==
  /\ server = "api_server"
  /\ analyzer = NewAnalyzer("squat")
  /\ scnA = ScnOff
  /\ analyze_result = NoResult
  /\ coach = NewCoach("BBCurl")
  /\ analysis_active = FALSE
  /\ now = 0
  /\ frame_count = 0
  /\ op = "init"
  /\ scnC = 0
  /\ response = NoResponse
  /\ catalog = <<>>
  /\ api_globals = [analyzers |-> <<>>,
                    thresholds |-> [name \in ExerciseNames |-> EXERCISE_CONFIGS[name].thresholds],
                    last_exercise |-> "",
                    requests |-> 0]
  /\ conc = <<>>

RegistryUnchanged ==
  UNCHANGED <<server, analyzer, scnA, catalog, conc, CoachVars>>

\* POST /api/analyze/image for an exercise, with a pose in the image.
analyze_image(exercise, lm) ==
  LET created == IF exercise \in DOMAIN api_globals.analyzers
                 THEN api_globals.analyzers
                 ELSE (exercise :> ExerciseAnalyzer(exercise, api_globals)) @@ api_globals.analyzers
  IN  /\ server = "api_server"
      /\ api_globals.requests < MaxRequests
      /\ api_globals' = [api_globals EXCEPT
                           !.analyzers = [created EXCEPT ![exercise] = analyze_state(created[exercise], lm)],
                           !.last_exercise = exercise,
                           !.requests = @ + 1]
      /\ analyze_result' = analyze_return(created[exercise], lm)
      /\ response' = OK
      /\ op' = "analyze"
      /\ RegistryUnchanged

\* POST /api/analyze/reset for an exercise.
reset_request(exercise) ==
  /\ server = "api_server"
  /\ api_globals.requests < MaxRequests
  /\ api_globals' = [api_globals EXCEPT
                       !.analyzers = IF exercise \in DOMAIN @
                                     THEN [@ EXCEPT ![exercise] = reset(@)]
                                     ELSE @,
                       !.requests = @ + 1]
  /\ response' = OK
  /\ op' = "reset"
  /\ UNCHANGED analyze_result
  /\ RegistryUnchanged

\* POST /api/load-calibration for an exercise.
load_calibration_request(exercise, thresholds) ==
  /\ server = "api_server"
  /\ api_globals.requests < MaxRequests
  /\ IF exercise \in ExerciseNames
     THEN LET g == [api_globals EXCEPT !.thresholds[exercise] = thresholds]
          IN  /\ api_globals' = [g EXCEPT
                                   !.analyzers = IF exercise \in DOMAIN @
                                                 THEN [@ EXCEPT ![exercise] = ExerciseAnalyzer(exercise, g)]
                                                 ELSE @,
                                   !.requests = @ + 1]
              /\ response' = OK
     ELSE /\ api_globals' = [api_globals EXCEPT !.requests = @ + 1]
          /\ response' = Error(404, "Exercise not found")
  /\ op' = "load_calibration"
  /\ UNCHANGED analyze_result
  /\ RegistryUnchanged

NextRegistry ==
  \/ \E exercise \in RequestNames, lm \in RegistryFrames : analyze_image(exercise, lm)
  \/ \E exercise \in RequestNames : reset_request(exercise)
  \/ \E exercise \in RequestNames :
       \E thresholds \in Calibrations(IF exercise \in ExerciseNames THEN exercise ELSE "squat") :
         load_calibration_request(exercise, thresholds)

NextSelect ==
  \/ \E lm \in SelectFrames, t \in 0..MaxTime : ProcessFrame(lm, t)
  \/ \E key \in RequestKeys : select_exercise(key)
  \/ start_analysis
  \/ stop_analysis

\* A catalog entry about to be offered and selected.
InitCatalog ==
  /\ server = "main"
  /\ analyzer = NewAnalyzer("squat")
  /\ scnA = ScnOff
  /\ analyze_result = NoResult
  /\ coach = NewCoach("BBCurl")
  /\ analysis_active = FALSE
  /\ now = 0
  /\ frame_count = 0
  /\ op = "init"
  /\ scnC = 0
  /\ response = NoResponse
  /\ catalog \in CatalogEntries
  /\ api_globals = <<>>
  /\ conc = <<>>

\* The listing of the exercises (get_exercises_by_category, get_exercises_list):
\* the entry is offered when its validator accepts it.
list_exercises ==
  /\ op' = "list_exercises"
  /\ response' = [main |-> valid_template_main(catalog.template, catalog.order),
                  biomechanics |-> valid_template_bio(catalog.template, catalog.order)]
  /\ UNCHANGED <<server, catalog, api_globals, conc, CoachVars, AnalyzerVars>>

\* BiomechanicsCoach(exercise_key, db) on the entry.
construct_coach ==
  /\ op' = "construct"
  /\ response' = construct(catalog.template, catalog.order)
  /\ UNCHANGED <<server, catalog, api_globals, conc, CoachVars, AnalyzerVars>>

NextCatalog == list_exercises \/ construct_coach

NextAnalyzer ==
  \/ \E lm \in FramesOf[analyzer.exercise_name] : Analyze(lm)
  \/ reset_session
  \/ \E thresholds \in Calibrations(analyzer.exercise_name) : load_calibration(thresholds)

\* generate_frames, lines 425-433: one frame through process_form, the
\* landmark map of the frame kept beside the coach.
process_frame(lm, current_time) ==
  /\ server = "main"
  /\ analysis_active
  /\ frame_count < MaxJointFrames
  /\ current_time >= now
  /\ now' = current_time
  /\ frame_count' = frame_count + 1
  /\ coach' = process_form(coach, lm, current_time)
  /\ conc' = [lm |-> lm]
  /\ op' = "process_form"
  /\ scnC' = ScnOff
  /\ UNCHANGED <<server, response, catalog, api_globals, analysis_active, AnalyzerVars>>

NextJoints ==
  \/ \E lm \in JointFrames, t \in 0..MaxTime : process_frame(lm, t)
  \/ start_analysis
  \/ stop_analysis

\* Threshold sets an analyzer can hold: those of EXERCISE_CONFIGS, and two
\* that a POST to /api/load-calibration installs for squat as they come, one
\* with its bands in order and one with excellent_min above excellent_max.
QualityThresholds ==
  {EXERCISE_CONFIGS[name].thresholds : name \in ExerciseNames}
    \cup {[EXERCISE_CONFIGS.squat.thresholds EXCEPT !.up = Deg(150)],
          [EXERCISE_CONFIGS.squat.thresholds EXCEPT !.excellent_min = Deg(100),
                                                    !.excellent_max = Deg(90)]}

\* Minimum angles of a descent, 0 to 180 in half degrees.
QualityMinAngles == {(d * Scale) \div 2 : d \in 0..360}

\* The scoring of the specification: the three branches on
\* distance = |minAngle - midpoint(excellentMin, excellentMax)|.
QualityFormula(th, min_angle) ==
  LET distance == Abs(min_angle - (th.excellent_min + th.excellent_max) \div 2)
  IN  IF min_angle <= th.excellent_max THEN Max(Deg(80), Deg(100) - 2 * distance)
      ELSE IF min_angle <= th.down THEN Max(Deg(60), Deg(80) - distance)
      ELSE Max(Deg(30), Deg(60) - distance)

\* An analyzer holding one of the threshold sets, before a rep is scored.
InitQuality ==
  /\ server = "api_server"
  /\ \E th \in QualityThresholds : analyzer = [NewAnalyzer("squat") EXCEPT !.thresholds = th]
  /\ scnA = ScnOff
  /\ InitCommon

\* One call of _calculate_rep_quality on the analyzer's thresholds.
score_rep(min_angle) ==
  /\ server = "api_server"
  /\ conc' = [min_angle |-> min_angle,
              quality |-> calculate_rep_quality(analyzer.thresholds, min_angle)]
  /\ op' = "quality"
  /\ UNCHANGED <<server, response, catalog, api_globals, CoachVars, AnalyzerVars>>

NextQuality == \E min_angle \in QualityMinAngles : score_rep(min_angle)

\* Headings of the landmarks handed to the angle functions.
AngleHeadings == {0, 40, 90, 160, 180, 200, 320}

\* Either server before any angle is computed.
InitAngle ==
  /\ server \in {"api_server", "main"}
  /\ analyzer = NewAnalyzer("squat")
  /\ scnA = ScnOff
  /\ InitCommon

\* One call of the server's angle function on three landmarks: get_angle in
\* api_server.py, BiomechanicsCoach._calculate_angle in main.py.
AngleEngine(a, b, c) ==
  /\ conc' = [a |-> a, b |-> b, c |-> c,
              angle |-> IF server = "api_server" THEN get_angle(a, b, c)
                        ELSE calculate_angle(a, b, c)]
  /\ op' = "angle"
  /\ UNCHANGED <<server, response, catalog, api_globals, CoachVars, AnalyzerVars>>

NextAngle ==
  \E ha, hb, hc \in AngleHeadings :
    AngleEngine([h |-> ha, vis |-> 9], [h |-> hb, vis |-> 9], [h |-> hc, vis |-> 9])

\* The squat analyzer at its construction.
InitHold ==
  /\ InitAnalyzer
  /\ analyzer.exercise_name = "squat"

\* POST /api/analyze/image in a session that goes on after a rep: one frame
\* through ExerciseAnalyzer.analyze.
analyze_frame(lm) ==
  /\ server = "api_server"
  /\ analyzer.reps < MaxHoldReps
  /\ analyzer' = analyze_state(analyzer, lm)
  /\ analyze_result' = analyze_return(analyzer, lm)
  /\ op' = "analyze"
  /\ scnA' = ScnOff
  /\ UNCHANGED <<server, response, catalog, api_globals, conc, CoachVars>>

NextHold ==
  \/ \E lm \in FramesOf["squat"] : analyze_frame(lm)
  \/ reset_session

\* Poses of a curl session: the elbow at either end of the range, the
\* shoulder stable or 40 degrees off its target.
DebounceFrames ==
  {CoachLm(theta, sigma, "all") : theta \in {45, 170}, sigma \in StabilityAngles}

\* A session with one unstable burst: at most MaxLead stable frames, then
\* at most MaxBurst unstable ones, then stable frames only.  conc holds the
\* part of the session the client is in, the parity of the number of
\* frames processed, and the last frame.
InitDebounce ==
  /\ server = "main"
  /\ analyzer = NewAnalyzer("squat")
  /\ scnA = ScnOff
  /\ analyze_result = NoResult
  /\ coach = NewCoach("BBCurl")
  /\ analysis_active = FALSE
  /\ now = 0
  /\ frame_count = 0
  /\ op = "init"
  /\ scnC = 0
  /\ response = NoResponse
  /\ catalog = <<>>
  /\ api_globals = <<>>
  /\ conc = [phase |-> "lead", parity |-> 0]

\* time.time() - start_time, as generate_frames will read it, has grown by
\* one second.
clock_tick ==
  /\ server = "main"
  /\ now < MaxDebounceTime
  /\ now' = now + 1
  /\ op' = "clock"
  /\ UNCHANGED <<server, response, catalog, api_globals, conc, coach, analysis_active,
                 frame_count, scnC, AnalyzerVars>>

\* generate_frames, one frame of the session through process_form at the
\* time the clock shows.  A flexed pose is supplied while fewer than
\* MaxDebounceReps reps are counted; while non-excellent flags are in the
\* window or on their way into it, frames are supplied up to
\* warning_duration before the end of the clock.
debounce_frame(lm) ==
  LET unstable == current_issues_of(coach, lm) # <<>>
      flexing == Le(primary_angle_of(coach, lm, primary_side_of(coach, lm)), coach.rep_flex_threshold)
  IN  /\ server = "main"
      /\ analysis_active
      /\ flexing => coach.reps < MaxDebounceReps
      /\ unstable \/ CountFalse(coach.smoothing_buffer) > 0
           => now + warning_duration <= MaxDebounceTime
      /\ IF unstable
         THEN /\ conc.phase \in {"lead", "burst"}
              /\ CountFalse(coach.smoothing_buffer) < MaxBurst
              /\ conc' = [phase |-> "burst", parity |-> 1 - conc.parity, lm |-> lm]
         ELSE /\ conc.phase = "lead" => Len(coach.smoothing_buffer) < MaxLead
              /\ conc' = [phase |-> IF conc.phase = "lead" THEN "lead" ELSE "recovery",
                          parity |-> 1 - conc.parity, lm |-> lm]
      /\ coach' = process_form(coach, lm, now)
      /\ op' = "process_form"
      /\ scnC' = ScnOff
      /\ UNCHANGED <<server, response, catalog, api_globals, analysis_active, now,
                     frame_count, AnalyzerVars>>

\* POST /api/analysis/start, once, at the start of the session.
begin_session == ~analysis_active /\ start_analysis

NextDebounce ==
  \/ \E lm \in DebounceFrames : debounce_frame(lm)
  \/ clock_tick
  \/ begin_session

\* Catalog entries for a curl whose primary joint has a wide or a narrow
\* range of motion and a small, a large or no tolerance of its own.
RangeEntries ==
  {[template |-> [primary_view |-> "side", primary_joint |-> "elbow",
                  views |-> [side |-> [elbow |-> [type |-> "primary", flexed |-> f,
                                                  extended |-> e] @@ tol,
                                       shoulder |-> StabilityCfg]]],
    order |-> JointOrder] :
     f \in {45, 90}, e \in {110, 170}, tol \in {<<>>, [tolerance |-> 10], [tolerance |-> 30]}}

\* Poses with the elbow at 45, 100 and 170 degrees and a stable shoulder.
RangeFrames == {CoachLm(theta, 20, "all") : theta \in {45, 100, 170}}

\* POST /api/exercise/select has accepted an entry of the catalog: the
\* validator answered True and the constructor built the coach.
InitRange ==
  /\ server = "main"
  /\ analyzer = NewAnalyzer("squat")
  /\ scnA = ScnOff
  /\ analyze_result = NoResult
  /\ catalog \in {entry \in RangeEntries : valid_template_main(entry.template, entry.order)}
  /\ LET built == construct(catalog.template, catalog.order)
     IN  /\ built.error = ""
         /\ coach = [NewCoach("BBCurl") EXCEPT
                       !.primary_joint_name = built.primary_joint_name,
                       !.flexed_target = built.flexed_target,
                       !.extended_target = built.extended_target,
                       !.rep_flex_threshold = built.rep_flex_threshold,
                       !.rep_ext_threshold = built.rep_ext_threshold]
  /\ analysis_active = FALSE
  /\ now = 0
  /\ frame_count = 0
  /\ op = "init"
  /\ scnC = 0
  /\ response = OK
  /\ api_globals = <<>>
  /\ conc = <<>>

NextRange ==
  \/ \E lm \in RangeFrames, t \in 0..MaxTime : process_frame(lm, t)
  \/ start_analysis

\* The squat analyzer beside a second analyzer, which is constructed anew
\* at each reset and then fed the same frames: conc holds the second
\* analyzer, the record its last analyze call returned, and the number of
\* resets.
InitTwin ==
  /\ server = "api_server"
  /\ analyzer = NewAnalyzer("squat")
  /\ scnA = ScnOff
  /\ analyze_result = NoResult
  /\ coach = NewCoach("BBCurl")
  /\ analysis_active = FALSE
  /\ now = 0
  /\ frame_count = 0
  /\ op = "init"
  /\ scnC = 0
  /\ response = NoResponse
  /\ catalog = <<>>
  /\ api_globals = <<>>
  /\ conc = [resets |-> 0, fresh |-> NewAnalyzer("squat"), out |-> NoResult]

\* POST /api/analyze/image: the frame through analyze of both analyzers.
analyze_twin(lm) ==
  /\ server = "api_server"
  /\ analyzer.reps < MaxReps
  /\ analyzer' = analyze_state(analyzer, lm)
  /\ analyze_result' = analyze_return(analyzer, lm)
  /\ conc' = [conc EXCEPT !.fresh = analyze_state(conc.fresh, lm),
                          !.out = analyze_return(conc.fresh, lm)]
  /\ op' = "analyze"
  /\ scnA' = ScnOff
  /\ UNCHANGED <<server, response, catalog, api_globals, CoachVars>>

\* POST /api/analyze/reset: reset of the analyzer, construction of the
\* second one.
reset_twin ==
  /\ server = "api_server"
  /\ conc.resets < MaxResets
  /\ analyzer' = reset(analyzer)
  /\ conc' = [resets |-> conc.resets + 1, fresh |-> NewAnalyzer(analyzer.exercise_name),
              out |-> NoResult]
  /\ op' = "reset"
  /\ scnA' = ScnOff
  /\ UNCHANGED <<server, response, catalog, api_globals, analyze_result, CoachVars>>

NextTwin ==
  \/ \E lm \in FramesOf["squat"] : analyze_twin(lm)
  \/ reset_twin

NextCoach ==
  \/ \E lm \in CoachFrames, t \in 0..MaxTime : ProcessFrame(lm, t)
  \/ \E key \in ExerciseKeys : select_exercise(key)
  \/ start_analysis
  \/ stop_analysis

NextStateMachine ==
  \/ \E angle \in SmoothedAngles : AnalyzeSmoothed(angle)
  \/ reset_session

NextScenarioC ==
  \/ \E lm \in ScenarioCFrames, t \in 0..MaxTime : ProcessFrame(lm, t)
  \/ \E key \in ExerciseKeys : select_exercise(key)
  \/ start_analysis
  \/ stop_analysis

Next == NextAnalyzer \/ NextCoach

\* Either server, from its start.
Spec == Init /\ [][Next]_vars

\* The fixed-exercise server.
SpecAnalyzer == InitAnalyzer /\ [][NextAnalyzer]_vars

\* The template-driven server.
SpecCoach == InitCoach /\ [][NextCoach]_vars

\* api_server.py under app.run(threaded=True): two request threads, no
\* lock.  api_globals.heap holds the ExerciseAnalyzer objects constructed so
\* far, api_globals.analyzers the object the dict names for each exercise;
\* conc holds each thread's position and locals, and, per object, the number
\* of times its phase went from down to up.
RaceThreads == 1..2

RaceExercise == "squat"

\* The poses the client posts, in order, for one squat: the bottom of the
\* descent, then standing.
RaceSession ==
  [k \in 1..MaxRaceRequests |->
     CHOOSE lm \in RegistryFrames :
       lm[<<"left", "Hip">>].h = ChainHeading(1, IF k = 1 THEN 20 ELSE 180)]

IdleLocal == [lm |-> <<>>, missing |-> FALSE, ref |-> 0, angle |-> 0, branch |-> "", active |-> FALSE]

InitRace ==
  /\ server = "api_server"
  /\ analyzer = NewAnalyzer("squat")
  /\ scnA = ScnOff
  /\ analyze_result = NoResult
  /\ coach = NewCoach("BBCurl")
  /\ analysis_active = FALSE
  /\ now = 0
  /\ frame_count = 0
  /\ op = "init"
  /\ scnC = 0
  /\ response = NoResponse
  /\ catalog = <<>>
  /\ api_globals = [analyzers |-> <<>>, heap |-> <<>>, requests |-> 0]
  /\ conc = [pc |-> [th \in RaceThreads |-> "idle"],
             local |-> [th \in RaceThreads |-> IdleLocal],
             crossings |-> <<>>]

RaceUnchanged ==
  UNCHANGED <<server, analyzer, scnA, catalog, CoachVars>>

\* analyze_image, line 392: `if exercise not in analyzers`.
RaceCheck(th) ==
  /\ server = "api_server"
  /\ conc.pc[th] = "idle"
  /\ api_globals.requests < MaxRaceRequests
  /\ api_globals' = [api_globals EXCEPT !.requests = @ + 1]
  /\ conc' = [conc EXCEPT !.pc[th] = "bind",
                          !.local[th] = [IdleLocal EXCEPT
                                           !.lm = RaceSession[api_globals.requests + 1],
                                           !.missing = RaceExercise \notin DOMAIN api_globals.analyzers]]
  /\ op' = "check"
  /\ UNCHANGED <<analyze_result, response>>
  /\ RaceUnchanged

\* analyze_image, lines 393-395: the analyzer is constructed and stored if
\* the test found none, then the one the dict names is taken.
RaceBind(th) ==
  LET missing == conc.local[th].missing
      heap == IF missing
              THEN Append(api_globals.heap, NewAnalyzer(RaceExercise))
              ELSE api_globals.heap
      named == IF missing
               THEN (RaceExercise :> Len(heap)) @@ api_globals.analyzers
               ELSE api_globals.analyzers
  IN  /\ server = "api_server"
      /\ conc.pc[th] = "bind"
      /\ api_globals' = [api_globals EXCEPT !.heap = heap, !.analyzers = named]
      /\ conc' = [conc EXCEPT !.pc[th] = "smooth",
                              !.local[th].ref = named[RaceExercise],
                              !.crossings = IF missing THEN Append(@, 0) ELSE @]
      /\ op' = "bind"
      /\ UNCHANGED <<analyze_result, response>>
      /\ RaceUnchanged

\* analyze, lines 143-164: the key test, the angle, the smoother, the
\* minimum of the descent.
RaceSmooth(th) ==
  LET ref == conc.local[th].ref
      lm == conc.local[th].lm
      a == api_globals.heap[ref]
      target == target_of(a, lm)
  IN  /\ server = "api_server"
      /\ conc.pc[th] = "smooth"
      /\ IF ~(\A i \in 1..3 : target[i] \in DOMAIN lm)
         THEN /\ analyze_result' = NeutralResult(a)
              /\ response' = OK
              /\ conc' = [conc EXCEPT !.pc[th] = "idle", !.local[th] = IdleLocal]
              /\ UNCHANGED api_globals
         ELSE LET w == smooth_window(a.window, get_angle(lm[target[1]], lm[target[2]], lm[target[3]]))
                  angle == smooth_mean(w)
              IN  /\ api_globals' = [api_globals EXCEPT
                                       !.heap[ref] = TrackMin([a EXCEPT !.window = w], angle)]
                  /\ conc' = [conc EXCEPT !.pc[th] = "test", !.local[th].angle = angle]
                  /\ UNCHANGED <<analyze_result, response>>
      /\ op' = "smooth"
      /\ RaceUnchanged

\* analyze, lines 167 and 172: the conditions of the two transitions.
RaceTest(th) ==
  LET a == api_globals.heap[conc.local[th].ref]
      angle == conc.local[th].angle
  IN  /\ server = "api_server"
      /\ conc.pc[th] = "test"
      /\ conc' = [conc EXCEPT
                    !.pc[th] = "phase",
                    !.local[th].branch =
                       IF angle < a.thresholds.down /\ a.phase = "up" THEN "down"
                       ELSE IF angle > a.thresholds.up + Deg(HYSTERESIS_BUFFER) /\ a.phase = "down"
                       THEN "up" ELSE ""]
      /\ op' = "test"
      /\ UNCHANGED <<api_globals, analyze_result, response>>
      /\ RaceUnchanged

\* analyze, lines 168-170 or 173-174: the phase is written; on the way up
\* was_active is read.
RacePhase(th) ==
  LET ref == conc.local[th].ref
      a == api_globals.heap[ref]
      branch == conc.local[th].branch
  IN  /\ server = "api_server"
      /\ conc.pc[th] = "phase"
      /\ api_globals' = [api_globals EXCEPT
                           !.heap[ref] =
                              IF branch = "down"
                              THEN [a EXCEPT !.phase = "down", !.was_active = TRUE,
                                             !.current_rep_min_angle = conc.local[th].angle]
                              ELSE IF branch = "up" THEN [a EXCEPT !.phase = "up"]
                              ELSE a]
      /\ conc' = [conc EXCEPT
                    !.pc[th] = "count",
                    !.local[th].active = (branch = "up" /\ a.was_active),
                    !.crossings[ref] = IF branch = "up" /\ a.phase = "down" THEN @ + 1 ELSE @]
      /\ op' = "phase"
      /\ UNCHANGED <<analyze_result, response>>
      /\ RaceUnchanged

\* analyze, lines 175-213: the rep is counted and scored, the feedback is
\* chosen, the record is returned.
RaceCount(th) ==
  LET ref == conc.local[th].ref
      a == api_globals.heap[ref]
      angle == conc.local[th].angle
      counted == IF conc.local[th].active
                 THEN [a EXCEPT !.reps = a.reps + 1,
                                !.rep_quality = Append(a.rep_quality,
                                                  calculate_rep_quality(a.thresholds, a.current_rep_min_angle)),
                                !.was_active = FALSE,
                                !.current_rep_min_angle = Deg(180),
                                !.last_feedback = EXERCISE_CONFIGS[a.exercise_name].feedback_messages.good,
                                !.feedback_hold_frames = 20]
                 ELSE a
      a2 == Classify(counted, angle)
  IN  /\ server = "api_server"
      /\ conc.pc[th] = "count"
      /\ api_globals' = [api_globals EXCEPT !.heap[ref] = a2]
      /\ analyze_result' = ResultOf(a2, angle)
      /\ response' = OK
      /\ conc' = [conc EXCEPT !.pc[th] = "idle", !.local[th] = IdleLocal]
      /\ op' = "analyze"
      /\ RaceUnchanged

NextRace ==
  \/ \E th \in RaceThreads : RaceCheck(th)
  \/ \E th \in RaceThreads : RaceBind(th)
  \/ \E th \in RaceThreads : RaceSmooth(th)
  \/ \E th \in RaceThreads : RaceTest(th)
  \/ \E th \in RaceThreads : RacePhase(th)
  \/ \E th \in RaceThreads : RaceCount(th)

SpecRace == InitRace /\ [][NextRace]_vars

\* The template-driven server, its frame loop and its request handlers as
\* threads.
SpecLock == InitLock /\ [][NextLock]_vars

\* The template-driven server on the poses for the joint colors.
SpecJoints == InitCoach /\ [][NextJoints]_vars

\* The rep scoring on every minimum angle, under each threshold set.
SpecQuality == InitQuality /\ [][NextQuality]_vars

\* The angle functions of both servers on landmarks of the unit circle.
SpecAngle == InitAngle /\ [][NextAngle]_vars

\* The template-driven server in a session with one unstable burst.
SpecDebounce == InitDebounce /\ [][NextDebounce]_vars

\* The same session with a clock that keeps advancing, as time.time()
\* does.
SpecDebounceLive == SpecDebounce /\ WF_vars(clock_tick)

\* The template-driven server on exercises of the catalog that the
\* selection has accepted.
SpecRange == InitRange /\ [][NextRange]_vars

\* The squat analyzer and, from each reset on, a newly constructed one on
\* the same frames.
SpecTwin == InitTwin /\ [][NextTwin]_vars

\* The squat analyzer in a session that goes on after a rep.
SpecHold == InitHold /\ [][NextHold]_vars

\* The fixed-exercise server with its dict of analyzers, one per exercise
\* named in a request.
SpecRegistry == InitRegistry /\ [][NextRegistry]_vars

\* The template-driven server with every kind of selection request.
SpecSelect == InitCoach /\ [][NextSelect]_vars

\* The validators and the constructor on catalog entries.
SpecCatalog == InitCatalog /\ [][NextCatalog]_vars

\* The rep state machine of the squat analyzer on smoothed angles.
SpecStateMachine == InitStateMachine /\ [][NextStateMachine]_vars

\* The template-driven server on the poses of scenario C.
SpecScenarioC == InitCoach /\ [][NextScenarioC]_vars

----------------------------------------------------------------------------
(* Properties *)

\* A step that is one analyze call on a frame with all chain landmarks.
AnalyzedFrame == op' = "analyze" /\ analyze_result'.status # "POSITION YOURSELF"

\* The smoothed angle of the last analyzed frame.
Smoothed(a) == smooth_mean(a.window)

\* A step that is one process_form call.
ProcessedFrame == op' = "process_form" /\ frame_count' = frame_count + 1

\* C1: frame processing leaves reps unchanged or adds exactly 1, in both
\* variants; reps gets smaller only through a reset (ExerciseAnalyzer.reset,
\* /api/analysis/start) or through the construction of a new analyzer or
\* coach.
RepMonotonicity ==
  [][/\ op' = "analyze" => analyzer'.reps \in {analyzer.reps, analyzer.reps + 1}
     /\ op' = "process_form" => coach'.reps \in {coach.reps, coach.reps + 1}
     /\ analyzer'.reps < analyzer.reps => op' \in {"reset", "load_calibration"}
     /\ coach'.reps < coach.reps => op' \in {"start_analysis", "select_exercise"}]_vars

\* C1 witness: a frame has just completed a rep.
RepCompleted ==
  \/ op = "analyze" /\ analyzer.reps = 1 /\ analyzer.feedback_hold_frames = 19
  \/ op = "process_form" /\ coach.reps = 1 /\ coach.stage = "extended"

\* The phases scenario A claims, and the phases the analyzer goes through.
ScenarioAPhasesClaimed == <<"up", "up", "up", "down", "down", "down", "down", "up", "up">>

ScenarioAPhasesAmended == <<"up", "up", "up", "down", "down", "down", "down", "down", "up">>

\* C2 as stated: after the k-th smoothed sample of scenario A the phase is
\* the k-th of up,up,up,down,down,down,down,up,up.
ScenarioAPhaseSequence ==
  scnA \in 1..Len(ScenarioA) => analyzer.phase = ScenarioAPhasesClaimed[scnA]

\* C2 amended: after the k-th smoothed sample of scenario A the phase is the
\* k-th of up,up,up,down,down,down,down,down,up: 165 is not above up + 5.
ScenarioAPhaseSequenceAmended ==
  scnA \in 1..Len(ScenarioA) => analyzer.phase = ScenarioAPhasesAmended[scnA]

\* C2 witness: the whole of scenario A has been fed.
ScenarioAFed == scnA = Len(ScenarioA) /\ analyzer.phase = "up"

\* C3: after scenario A reps is 1 and the one quality score is 85, scored
\* from the minimum angle 90 that the excursion held until its last sample.
ScenarioAOutcome ==
  /\ scnA \in 5..8 => analyzer.current_rep_min_angle = Deg(90)
  /\ scnA = Len(ScenarioA) => analyzer.reps = 1 /\ analyzer.rep_quality = <<Deg(85)>>

\* C3 witness: scenario A has been fed and its rep counted.
ScenarioAScored == scnA = Len(ScenarioA) /\ analyzer.reps = 1

\* The smoothed angle lies in the hysteresis gap of the analyzer.
InGap(a, angle) ==
  a.thresholds.down <= angle /\ angle <= a.thresholds.up + Deg(HYSTERESIS_BUFFER)

\* C4: a frame whose smoothed angle lies in the hysteresis gap
\* (down <= angle <= up + 5) changes neither phase nor reps.
NoChatter ==
  [][AnalyzedFrame /\ InGap(analyzer', Smoothed(analyzer'))
       => analyzer'.phase = analyzer.phase /\ analyzer'.reps = analyzer.reps]_vars

\* C4 witness: a frame in the gap has been analyzed during a down phase.
GapFrameWhileDown ==
  /\ op = "analyze" /\ analyze_result.status # "POSITION YOURSELF"
  /\ analyzer.window # <<>> /\ InGap(analyzer, Smoothed(analyzer))
  /\ analyzer.phase = "down"

\* The mean of the previous and the current primary angle of the coach:
\* the output of the shortest moving average there is.
Mean2(prev, cur) == (prev + cur) \div 2

\* C5 as stated: a phase / stage transition happens only when the smoothed
\* primary angle has crossed the threshold, in analyze and in process_form.
TransitionsUseSmoothedAngle ==
  [][/\ AnalyzedFrame /\ analyzer'.phase # analyzer.phase
          => IF analyzer'.phase = "down"
             THEN Smoothed(analyzer') < analyzer.thresholds.down
             ELSE Smoothed(analyzer') > analyzer.thresholds.up + Deg(HYSTERESIS_BUFFER)
     /\ ProcessedFrame /\ coach'.stage # coach.stage /\ coach.smoothing_buffer # <<>>
          /\ coach.current_angle # NaN /\ coach'.current_angle # NaN
          => IF coach'.stage = "flexed"
             THEN Mean2(coach.current_angle, coach'.current_angle) <= coach.rep_flex_threshold
             ELSE Mean2(coach.current_angle, coach'.current_angle) >= coach.rep_ext_threshold]_vars

\* C6: a process_form call that starts inside the debounce window
\* (current_timestamp - last_bad_form_time < warning_duration) changes
\* neither stage nor reps.
RepCountingSuspended ==
  [][ProcessedFrame /\ now' - coach.last_bad_form_time < warning_duration
       => coach'.stage = coach.stage /\ coach'.reps = coach.reps]_vars

\* C6 witness: a frame inside the debounce window had the primary angle at
\* or below the flex threshold and the stage stayed extended.
SuppressedCrossing ==
  /\ op = "process_form" /\ coach.feedback = "FIX FORM"
  /\ coach.stage = "extended"
  /\ Le(coach.current_angle, coach.rep_flex_threshold)

\* The call has marked the session unstable: more than 30% of the window is
\* non-excellent after its append.
Marking == CountFalse(coach'.smoothing_buffer) * 10 > BufferMaxlen * 3

\* C7 as stated: neither the call that marks the session unstable at t nor a
\* call with a timestamp in [t, t + warning_duration) increments reps.
DebounceSuppression ==
  [][ProcessedFrame /\ (Marking \/ now' - coach.last_bad_form_time < warning_duration)
       => coach'.reps = coach.reps]_vars

\* C8: on scenario C the stage is extended up to the sample 50, flexed from
\* it up to the sample 166, and extended with reps = 1 from then on.
ScenarioCStages ==
  /\ scnC \in 1..3 => coach.stage = "extended" /\ coach.reps = 0
  /\ scnC \in 4..6 => coach.stage = "flexed" /\ coach.reps = 0
  /\ scnC \in 7..8 => coach.stage = "extended" /\ coach.reps = 1

\* C8 witness: the whole of scenario C has been fed.
ScenarioCFed == scnC = Len(ScenarioC) /\ coach.reps = 1

\* A chain landmark of the selected side is absent from the map.
KeysMissing(a, lm) == \E i \in 1..3 : target_of(a, lm)[i] \notin DOMAIN lm

\* The poses of each exercise that lack a chain landmark of the side the
\* analyzer selects.
FramesWithoutKeys ==
  [name \in ExerciseNames |-> {lm \in FramesOf[name] : KeysMissing(NewAnalyzer(name), lm)}]

\* C9: analyze on a map without one of the chain landmarks of the selected
\* side returns the neutral record with the current reps and phase and
\* changes nothing of the analyzer.
MissingLandmarksNeutral ==
  [][\A lm \in FramesWithoutKeys[analyzer.exercise_name] :
       Analyze(lm)
         => /\ analyzer' = analyzer
            /\ analyze_result' = [reps |-> analyzer.reps, phase |-> analyzer.phase,
                                  angle |-> 1800, status |-> "POSITION YOURSELF",
                                  color |-> "gray", quality |-> <<>>]]_vars

\* C9 witness: a frame without its landmarks arrived in the middle of a rep.
NeutralDuringRep ==
  /\ op = "analyze" /\ analyze_result.status = "POSITION YOURSELF"
  /\ analyzer.phase = "down" /\ analyzer.window # <<>>

\* C10, the conclusion it draws from "session state untouched": a
\* process_form call whose driving side has a primary landmark missing or
\* below the visibility floor neither completes a rep nor changes stage.
InvisiblePrimaryUntouched ==
  [][\A lm \in CoachFrames, t \in 0..MaxTime :
       /\ ProcessFrame(lm, t)
       /\ ~joint_visible(lm, primary_side_of(coach, lm), coach.primary_joint_name)
       => coach'.reps = coach.reps /\ coach'.stage = coach.stage]_vars

\* The poses of each exercise that have every chain landmark of the selected
\* side, one of them below the visibility floor of 0.6.
FramesBelowFloor ==
  [name \in ExerciseNames |->
     {lm \in FramesOf[name] :
        /\ ~KeysMissing(NewAnalyzer(name), lm)
        /\ \E i \in 1..3 : Vis(lm, target_of(NewAnalyzer(name), lm)[i]) < min_visibility}]

\* C11 as stated: analyze on a map whose selected chain has a landmark below
\* the visibility floor returns the neutral record and changes nothing of
\* the analyzer: no sample enters the window, no phase change, no rep.
VisibilityFloorNeutral ==
  [][\A lm \in FramesBelowFloor[analyzer.exercise_name] :
       Analyze(lm)
         => /\ analyzer' = analyzer
            /\ analyze_result'.status = "POSITION YOURSELF"]_vars

\* C20: reset from any reachable state gives reps 0, phase up, was_active
\* false, minimum angle 180, no quality scores (average None) and an empty
\* smoothing window, and a second reset changes nothing more.
ResetClearsAndIsIdempotent ==
  [][op' = "reset"
       => /\ analyzer'.reps = 0 /\ analyzer'.phase = "up"
          /\ analyzer'.was_active = FALSE
          /\ analyzer'.current_rep_min_angle = Deg(180)
          /\ analyzer'.rep_quality = <<>> /\ get_average_quality(analyzer') = <<>>
          /\ analyzer'.window = <<>>
          /\ reset(analyzer') = analyzer']_vars

\* C20 witness: a reset has just cleared a session that had counted a rep
\* (the hold counter of the rep feedback, which reset leaves alone, still
\* runs).
ResetAfterRep ==
  /\ op = "reset" /\ analyzer.reps = 0 /\ analyzer.window = <<>>
  /\ analyzer.feedback_hold_frames > 0

AcceptedEntriesConstruct ==
  /\ op = "construct" /\ valid_template_main(catalog.template, catalog.order)
       => response.error = ""
  /\ op = "construct" /\ valid_template_bio(catalog.template, catalog.order)
       => response.error = ""

\* C15: /api/select_exercise with a key the catalog does not have is
\* answered with 404 and leaves the coach, with the exercise key it
\* carries, exactly as it was.
UnknownKeyRejected ==
  [][\A key \in RequestKeys \ (DOMAIN db.exercises \cup {""}) :
       select_exercise(key) => response'.code = 404 /\ coach' = coach]_vars

\* C15 witness: a key was refused as not found in the middle of a session
\* that has a rep and a non-empty stability window.
RejectedDuringSession ==
  /\ op = "select_exercise" /\ response.code = 404
  /\ coach.reps = 1 /\ coach.smoothing_buffer # <<>>

\* C16 as stated: a request to the fixed-exercise server that names an
\* exercise EXERCISE_CONFIGS does not have is answered with a not-found
\* error and creates no analyzer.
UnknownExerciseRejected ==
  [][\A exercise \in RequestNames \ ExerciseNames :
       \/ \E lm \in RegistryFrames : analyze_image(exercise, lm)
       \/ reset_request(exercise)
       \/ \E thresholds \in Calibrations("squat") : load_calibration_request(exercise, thresholds)
       => /\ response'.code = 404
          /\ api_globals'.analyzers = api_globals.analyzers]_vars

\* C19 as stated: the first frame for an exercise after frames for another
\* one is analyzed from the initial analyzer state.
SwitchDiscardsAnalyzer ==
  [][\A exercise \in RequestNames, lm \in RegistryFrames :
       /\ analyze_image(exercise, lm)
       /\ api_globals.last_exercise \notin {exercise, ""}
       => api_globals'.analyzers[exercise]
            = analyze_state(ExerciseAnalyzer(exercise, api_globals), lm)]_vars

\* C12: while a process_form call is in flight the loop holds
\* exercise_lock, the coach it runs on is the active instance, and no field
\* of that coach has changed since the call read it: no switch and no reset
\* interleaves.
ProcessFormExclusive ==
  conc.pc = "in_process_form"
    => conc.lock = "frame" /\ conc.self = conc.inst /\ coach = conc.seen

\* C12 witness: a call is in flight on the second coach instance, in the
\* middle of a session.
CallInFlightAfterSwitch ==
  conc.pc = "in_process_form" /\ conc.inst = 1 /\ coach.stage = "flexed"

\* C13 as stated: the reps, the joint colors, the feedback and the form
\* issue rendered for a frame are those the loop's own process_form call
\* for that frame left.
RenderedFromOneCall ==
  op = "render"
    => /\ conc.out.reps = conc.after.reps
       /\ conc.out.colors = conc.after.joint_colors
       /\ conc.out.feedback = conc.after.feedback
       /\ conc.out.form_issue = conc.after.form_issue

\* C14 as stated: requests for one exercise never interleave inside the
\* read-mutate-write of one ExerciseAnalyzer.
RequestsDoNotInterleave ==
  \A t1, t2 \in RaceThreads :
    (t1 # t2 /\ conc.pc[t1] \in {"test", "phase", "count"}
             /\ conc.pc[t2] \in {"test", "phase", "count"})
      => conc.local[t1].ref # conc.local[t2].ref

\* C14 as stated: one down-to-up crossing increments reps once and appends
\* one quality score.
OneRepPerCrossing ==
  \A ref \in DOMAIN api_globals.heap :
    /\ api_globals.heap[ref].reps <= conc.crossings[ref]
    /\ Len(api_globals.heap[ref].rep_quality) <= conc.crossings[ref]

\* C14 as stated: the first requests for an exercise create one analyzer.
OneAnalyzerPerExercise == Len(api_globals.heap) <= 1

\* C14 as stated, whole.
ExclusiveAnalyzerAccess ==
  RequestsDoNotInterleave /\ OneRepPerCrossing /\ OneAnalyzerPerExercise

\* C21 as stated: a start of the analysis leaves reps 0 and stage extended
\* and also an empty stability window and a zero last-bad-form timestamp.
StartClearsHistory ==
  [][op' = "start_analysis"
       => /\ coach'.reps = 0
          /\ coach'.stage = "extended"
          /\ coach'.smoothing_buffer = <<>>
          /\ coach'.last_bad_form_time = 0]_vars

\* C22: the smoother is a FIFO of at most SMOOTHING_WINDOW samples.  An
\* analyzed frame appends its sample, a full buffer first loses its oldest
\* one, the angle returned is the mean of the buffer (reported to one
\* decimal) and lies between the least and the greatest sample held, and on
\* an empty buffer it is the sample itself; a reset empties the buffer.
SmootherIsBoundedFIFO ==
  [][/\ AnalyzedFrame =>
          LET w == analyzer.window
              w2 == analyzer'.window
              n == Len(w)
              k == Len(w2)
          IN  /\ k = Min(n + 1, SMOOTHING_WINDOW)
              /\ n < SMOOTHING_WINDOW => SubSeq(w2, 1, n) = w
              /\ n = SMOOTHING_WINDOW => SubSeq(w2, 1, k - 1) = Tail(w)
              /\ 2 * Abs(analyze_result'.angle * Scale * k - 10 * SeqSum(w2)) <= Scale * k
              /\ \E i \in 1..k : w2[i] * k <= SeqSum(w2)
              /\ \E i \in 1..k : w2[i] * k >= SeqSum(w2)
              /\ n = 0 => analyze_result'.angle * Scale = 10 * w2[1]
     /\ op' = "reset" => analyzer'.window = <<>>]_vars

\* C22 witness: a rep has been counted and the buffer is full of standing
\* samples, so the sample of the descent has been evicted.
SmootherEvicted ==
  /\ op = "analyze"
  /\ analyzer.reps = 1
  /\ Len(analyzer.window) = SMOOTHING_WINDOW
  /\ \A i \in 1..SMOOTHING_WINDOW : analyzer.window[i] = Deg(180)

\* C23: on an analyzed frame with no completion hold active before or set
\* by it, the status returned follows the ladder on the phase returned in
\* the same record: in the down phase too_deep, then excellent, then good,
\* else deeper, each on the smoothed angle; in the up phase READY.
FeedbackLadder ==
  [][(AnalyzedFrame /\ analyzer.feedback_hold_frames = 0 /\ analyzer'.feedback_hold_frames = 0)
       => LET r == analyze_result'
              angle == Smoothed(analyzer')
              th == analyzer'.thresholds
              msg == EXERCISE_CONFIGS[analyzer'.exercise_name].feedback_messages
          IN  /\ r.phase \in {"up", "down"}
              /\ r.phase = "up" => r.status = "READY"
              /\ r.phase = "down" =>
                    r.status = IF angle <= th.too_deep THEN msg.too_deep
                               ELSE IF angle <= th.excellent_max THEN msg.excellent
                               ELSE IF angle <= th.down THEN msg.good
                               ELSE msg.deeper]_vars

\* C23 witness: after a counted rep and the end of its hold, a frame of the
\* next descent is classified too deep.
LadderAfterHold ==
  /\ op = "analyze"
  /\ analyzer.reps = 1
  /\ analyzer.feedback_hold_frames = 0
  /\ analyze_result.phase = "down"
  /\ analyze_result.status = EXERCISE_CONFIGS[analyzer.exercise_name].feedback_messages.too_deep

\* C24 as stated: the frame that completes a rep returns the completion
\* message; every frame submitted to analyze while the hold counter is
\* positive decreases it by one, a frame without its landmarks included; a
\* reset leaves no hold.
HoldDecrementsEveryFrame ==
  [][/\ (op' = "analyze" /\ analyzer'.reps = analyzer.reps + 1)
          => /\ analyze_result'.status = analyzer'.last_feedback
             /\ analyzer'.feedback_hold_frames = 19
     /\ (op' = "analyze" /\ analyzer'.reps = analyzer.reps /\ analyzer.feedback_hold_frames > 0)
          => analyzer'.feedback_hold_frames = analyzer.feedback_hold_frames - 1
     /\ op' = "reset" => analyzer'.feedback_hold_frames = 0]_vars

\* C25 as stated: when a or c coincides with b, the angle function of
\* either server returns exactly 180.
DegenerateIs180 ==
  (op = "angle" /\ Degenerate(conc.a, conc.b, conc.c)) => conc.angle = Deg(180)

\* C26 as stated: whenever process_form returns with feedback FIX FORM, the
\* form issue is not empty.
FixFormNamesIssue ==
  (op = "process_form" /\ coach.feedback = "FIX FORM") => coach.form_issue # ""

\* C27 as stated: for every minimum angle and every threshold set an
\* analyzer can hold, the score is that of the three-branch formula and
\* lies between 30 and 100.
QualityIsThreeBranch ==
  op = "quality"
    => /\ conc.quality = QualityFormula(analyzer.thresholds, conc.min_angle)
       /\ conc.quality >= Deg(30)
       /\ conc.quality <= Deg(100)

\* C27 amended: the score is 100 when the minimum angle is the midpoint of
\* the excellent band, wherever that midpoint lies, and otherwise that of
\* the three-branch formula; it lies between 30 and 100.
QualityIsThreeBranchOrPerfect ==
  op = "quality"
    => LET th == analyzer.thresholds
       IN  /\ conc.quality =
                IF 2 * conc.min_angle = th.excellent_min + th.excellent_max THEN Deg(100)
                ELSE QualityFormula(th, conc.min_angle)
           /\ conc.quality >= Deg(30)
           /\ conc.quality <= Deg(100)

\* C27 witness: under a calibration whose excellent band is inverted, the
\* minimum angle at the band's midpoint, above excellent_max, is scored.
PerfectMatchAboveBand ==
  /\ op = "quality"
  /\ 2 * conc.min_angle = analyzer.thresholds.excellent_min + analyzer.thresholds.excellent_max
  /\ conc.min_angle > analyzer.thresholds.excellent_max

\* An analyzed frame on which the phase goes from up to down.
EntersDown == AnalyzedFrame /\ analyzer.phase = "up" /\ analyzer'.phase = "down"

\* An analyzed frame on which the phase is down and stays down.
StaysDown == AnalyzedFrame /\ analyzer.phase = "down" /\ analyzer'.phase = "down"

\* An analyzed frame on which a rep is scored.
RepScored == AnalyzedFrame /\ Len(analyzer'.rep_quality) = Len(analyzer.rep_quality) + 1

\* C28 as stated: right after the frame that enters the down phase
\* current_rep_min_angle is 180; while the phase stays down it is the least
\* smoothed angle of the excursion; right after a rep is scored it is 180.
MinAngleBookkeepingClaimed ==
  [][/\ EntersDown => analyzer'.current_rep_min_angle = Deg(180)
     /\ StaysDown => analyzer'.current_rep_min_angle
                        = Min(analyzer.current_rep_min_angle, Smoothed(analyzer'))
     /\ RepScored => analyzer'.current_rep_min_angle = Deg(180)]_vars

\* C28 amended: right after the frame that enters the down phase
\* current_rep_min_angle is the smoothed angle of that frame; while the
\* phase stays down it is the least smoothed angle of the excursion, the
\* entering frame included; right after a rep is scored it is 180.
MinAngleBookkeeping ==
  [][/\ EntersDown => analyzer'.current_rep_min_angle = Smoothed(analyzer')
     /\ StaysDown => analyzer'.current_rep_min_angle
                        = Min(analyzer.current_rep_min_angle, Smoothed(analyzer'))
     /\ RepScored => analyzer'.current_rep_min_angle = Deg(180)]_vars

\* C28 witness: in the down phase, the minimum held comes from an earlier
\* frame of the excursion and is below the smoothed angle of the last one.
MinHeldFromEarlierFrame ==
  /\ op = "analyze"
  /\ analyze_result.status # "POSITION YOURSELF"
  /\ analyzer.phase = "down"
  /\ analyzer.current_rep_min_angle < Smoothed(analyzer)

\* A step that is one process_form call on a frame kept in conc.
JointsFrame == op' = "process_form" /\ frame_count' = frame_count + 1

\* The sides whose primary joint has its three landmarks at or above the
\* visibility floor in the frame just processed.
PrimarySidesSeen ==
  {side \in {"left", "right"} : joint_visible(conc'.lm, side, coach.primary_joint_name)}

\* C29 as stated: on each side whose primary joint is visible, the color is
\* red while form is not OK; while form is OK it is green exactly when the
\* angle is no more than 15 degrees away from rep_ext_threshold or no more
\* than 15 degrees away from rep_flex_threshold.
PrimaryColorWithinGrace ==
  [][JointsFrame =>
       \A side \in PrimarySidesSeen :
         LET angle == joint_angle(conc'.lm, side, coach.primary_joint_name)
             near_ext == angle # NaN /\ Abs(angle - coach.rep_ext_threshold) <= Deg(primary_grace)
             near_flex == angle # NaN /\ Abs(angle - coach.rep_flex_threshold) <= Deg(primary_grace)
         IN  coach'.joint_colors[<<side, coach.primary_joint_name>>]
               = IF form_ok_of(coach, now') /\ (near_ext \/ near_flex) THEN "green" ELSE "red"]_vars

\* C29 amended: on each side whose primary joint is visible, the color is
\* red while form is not OK; while form is OK it is green exactly when the
\* angle is at least rep_ext_threshold - 15 or at most
\* rep_flex_threshold + 15, however far beyond the threshold it lies.
PrimaryColorBeyondGrace ==
  [][JointsFrame =>
       \A side \in PrimarySidesSeen :
         LET angle == joint_angle(conc'.lm, side, coach.primary_joint_name)
             at_full_extension == angle # NaN /\ angle >= coach.rep_ext_threshold - Deg(primary_grace)
             at_good_depth == angle # NaN /\ angle <= coach.rep_flex_threshold + Deg(primary_grace)
         IN  coach'.joint_colors[<<side, coach.primary_joint_name>>]
               = IF form_ok_of(coach, now') /\ (at_full_extension \/ at_good_depth)
                 THEN "green" ELSE "red"]_vars

\* C29 witness: with form OK, an elbow flexed to 20 degrees, 30 degrees
\* below rep_flex_threshold, is green on both sides.
FlexedBeyondGraceGreen ==
  /\ op = "process_form"
  /\ coach.feedback # "FIX FORM"
  /\ coach.current_angle = Deg(20)
  /\ coach.joint_colors[<<"left", "elbow">>] = "green"
  /\ coach.joint_colors[<<"right", "elbow">>] = "green"

\* The stability joints of the coach's view.
StabilityJoints ==
  {j \in DOMAIN view_cfg_of(coach.exercise_key) :
     LET cfg == view_cfg_of(coach.exercise_key)[j]
     IN  "type" \in DOMAIN cfg /\ cfg.type = "stability"}

\* The stability joint j of a side is visible in the frame just processed
\* and its angle is further from its target than its maximum deviation.
Deviates(side, j) ==
  LET cfg == view_cfg_of(coach.exercise_key)[j]
      angle == joint_angle(conc'.lm, side, j)
  IN  /\ joint_visible(conc'.lm, side, j)
      /\ angle # NaN
      /\ Abs(angle - Deg(cfg.target)) > Deg(cfg.max_deviation)

\* C30: per frame and per side, a visible stability joint beyond its
\* maximum deviation is red, makes the frame non-excellent and has its
\* issue reported; a stability joint with a landmark below the floor has
\* no color; and a frame on which no visible stability joint deviates is
\* excellent and reports no issue.
StabilityMonitor ==
  [][JointsFrame =>
       LET excellent == coach'.smoothing_buffer[Len(coach'.smoothing_buffer)]
           deviating == {sj \in {"left", "right"} \X StabilityJoints : Deviates(sj[1], sj[2])}
       IN  /\ \A sj \in deviating :
                /\ coach'.joint_colors[sj] = "red"
                /\ ~excellent
                /\ \E sj1 \in deviating : coach'.form_issue = IssueText[sj1[2]]
           /\ \A sj \in ({"left", "right"} \X StabilityJoints) \ deviating :
                IF joint_visible(conc'.lm, sj[1], sj[2])
                THEN coach'.joint_colors[sj] = "green"
                ELSE sj \notin DOMAIN coach'.joint_colors
           /\ deviating = {} => (excellent /\ coach'.form_issue = "")]_vars

\* C30 witness: the shoulder is unstable on both sides, the left hip is
\* hidden: the right shoulder is red, the left one has no color, and the
\* issue is reported.
OneSideJudged ==
  /\ op = "process_form"
  /\ <<"left", "shoulder">> \notin DOMAIN coach.joint_colors
  /\ <<"right", "shoulder">> \in DOMAIN coach.joint_colors
  /\ coach.joint_colors[<<"right", "shoulder">>] = "red"
  /\ coach.form_issue = "STABILIZE SHOULDER"

\* A step of the burst session that is one process_form call.
DebounceFrame == op' = "process_form" /\ "lm" \in DOMAIN conc'

\* The number of non-excellent flags among the most recent (up to 20)
\* after the call: those the window held, less the oldest one when the
\* window was full and it was non-excellent, plus one when a visible
\* stability joint of the frame deviates.
NonExcellentAfter ==
  LET window == coach.smoothing_buffer
      evicted == IF Len(window) = 20 /\ ~window[1] THEN 1 ELSE 0
      excellent == \A sj \in {"left", "right"} \X StabilityJoints : ~Deviates(sj[1], sj[2])
  IN  Cardinality({i \in 1..Len(window) : ~window[i]}) - evicted + (IF excellent THEN 0 ELSE 1)

\* C31: process_form sets last_bad_form_time to the timestamp of the frame
\* exactly when at least 7 of the most recent (up to 20) flags, this
\* frame's included, are non-excellent, whatever the number of flags the
\* window holds; otherwise last_bad_form_time is unchanged.
UnstableFrameMarking ==
  [][DebounceFrame =>
       IF NonExcellentAfter >= 7
       THEN coach'.last_bad_form_time = now'
       ELSE coach'.last_bad_form_time = coach.last_bad_form_time]_vars

\* C31 witness: the seventh non-excellent flag has marked the session
\* while the window holds fewer than 20 flags.
MarkedBeforeWindowFull ==
  /\ op = "process_form"
  /\ Len(coach.smoothing_buffer) < BufferMaxlen
  /\ CountFalse(coach.smoothing_buffer) = 7
  /\ now > 0 /\ coach.last_bad_form_time = now

\* C32: whenever process_form has returned with form OK, the feedback is
\* the text of the stage it returned: GO FURTHER or GOOD DEPTH while
\* extended, as the angle exceeds rep_flex_threshold or not; FULL
\* EXTENSION or GOOD EXTENSION while flexed, as the angle is below
\* rep_ext_threshold or not.
FeedbackOfReturnedStage ==
  op = "process_form" /\ coach.feedback # "FIX FORM"
    => coach.feedback =
         IF coach.stage = "extended"
         THEN IF Gt(coach.current_angle, coach.rep_flex_threshold) THEN "GO FURTHER" ELSE "GOOD DEPTH"
         ELSE IF Lt(coach.current_angle, coach.rep_ext_threshold) THEN "FULL EXTENSION"
              ELSE "GOOD EXTENSION"

\* The session is marked unstable: the window holds 7 or more
\* non-excellent flags.
Marked == CountFalse(coach.smoothing_buffer) >= 7

\* At most 6 non-excellent flags remain in the window and warning_duration
\* has elapsed since the last update of last_bad_form_time.
Recovered ==
  /\ CountFalse(coach.smoothing_buffer) <= 6
  /\ now - coach.last_bad_form_time >= warning_duration

\* Frames keep arriving, extended poses among them, and flexed poses too
\* as long as no rep is counted.
FramesKeepArriving ==
  /\ []<>(conc.parity = 0) /\ []<>(conc.parity = 1)
  /\ []<>(op = "process_form" /\ coach.current_angle = Deg(170))
  /\ []<>(coach.reps >= MaxDebounceReps \/ (op = "process_form" /\ coach.current_angle = Deg(45)))

\* C33: in a session whose frames are all excellent after one unstable
\* burst and whose clock keeps advancing, if frames keep arriving then a
\* marked session is eventually recovered for good (last_bad_form_time no
\* longer updated, form OK), and when no rep was counted before, a rep is
\* counted after the recovery.
DebounceRecovery ==
  FramesKeepArriving
    => /\ Marked ~> []Recovered
       /\ (Marked /\ coach.reps = 0) ~> (Recovered /\ coach.reps = 1)

\* C33 witness: a rep counted after the burst that marked the session,
\* while non-excellent flags of the burst are still in the window.
RepAfterBurst ==
  /\ op = "process_form" /\ conc.phase = "recovery"
  /\ Len(coach.smoothing_buffer) = BufferMaxlen
  /\ CountFalse(coach.smoothing_buffer) \in 1..6
  /\ coach.last_bad_form_time >= 1
  /\ now - coach.last_bad_form_time >= warning_duration
  /\ coach.reps = 1 /\ coach.feedback = "GOOD EXTENSION"

\* C34: while no frame of the session was non-excellent and
\* last_bad_form_time was never updated, a process_form call at any
\* timestamp >= 0 returns with form OK: its feedback is not FIX FORM.
NoSpuriousDebounce ==
  /\ op = "process_form"
  /\ CountFalse(coach.smoothing_buffer) = 0
  /\ coach.last_bad_form_time = 0
  => coach.feedback # "FIX FORM"

\* C35: for every exercise the validator accepts, a process_form call
\* increments reps only if the stage was flexed when the call started.
OneTransitionPerFrame ==
  [][JointsFrame /\ coach'.reps > coach.reps => coach.stage = "flexed"]_vars

\* C36: in every reachable state of the analyzer was_active is True
\* exactly when phase is down; every down-to-up transition of analyze adds
\* one rep, and reps changes in no other way than by such a transition or
\* by a reset to 0.
WasActiveTracksPhase ==
  [][/\ analyzer.was_active <=> analyzer.phase = "down"
     /\ analyzer'.was_active <=> analyzer'.phase = "down"
     /\ op' = "analyze" /\ analyzer.phase = "down" /\ analyzer'.phase = "up"
          => analyzer'.reps = analyzer.reps + 1
     /\ analyzer'.reps # analyzer.reps
          => \/ /\ op' = "analyze" /\ analyzer.phase = "down" /\ analyzer'.phase = "up"
                /\ analyzer'.reps = analyzer.reps + 1
             \/ op' = "reset" /\ analyzer'.reps = 0]_vars

\* C36 witness: a second down-to-up transition has been counted and the
\* flag is down again with the phase.
SecondRepCounted ==
  /\ op = "analyze"
  /\ analyzer.reps = 2 /\ analyzer.phase = "up" /\ ~analyzer.was_active

\* C37 as stated: after any sequence of analyze and reset calls
\* len(rep_quality) = reps, an analyze call leaves the history alone or
\* appends one score to it, and the quality of the record an analyze call
\* returns is None exactly when reps = 0.
QualityHistoryMatchesReps ==
  [][/\ Len(analyzer'.rep_quality) = analyzer'.reps
     /\ op' = "analyze"
          => /\ \/ analyzer'.rep_quality = analyzer.rep_quality
                \/ /\ Len(analyzer'.rep_quality) = Len(analyzer.rep_quality) + 1
                   /\ SubSeq(analyzer'.rep_quality, 1, Len(analyzer.rep_quality))
                        = analyzer.rep_quality
             /\ analyze_result'.quality = <<>> <=> analyzer'.reps = 0]_vars

\* C38: when analyze scores a rep, the minimum angle of the excursion is
\* strictly below the down threshold, so the score appended to rep_quality
\* is at least 60: the last branch of the scoring formula is not taken.
CountedRepScoresAtLeast60 ==
  [][Len(analyzer'.rep_quality) = Len(analyzer.rep_quality) + 1
       => /\ analyzer.phase = "down"
          /\ analyzer.current_rep_min_angle < analyzer.thresholds.down
          /\ analyzer'.rep_quality[Len(analyzer'.rep_quality)] >= Deg(60)]_vars

\* C38 witness: a rep whose minimum lies between excellent_max and down
\* has been scored, below 80.
ShallowRepScored ==
  /\ op = "analyze" /\ analyzer.reps = 1
  /\ Len(analyzer.rep_quality) = 1
  /\ analyzer.rep_quality[1] < Deg(80)

\* C39: after a reset, every analyze call returns the record that a newly
\* constructed analyzer returns on the same frames.
ResetEqualsFreshSession ==
  op = "analyze" /\ conc.resets > 0 => analyze_result = conc.out

====
